---- MODULE Spec2Model ----
(***************************************************************************)
(* Model of the fic-grade-bot polling scheduler and change detector.       *)
(*                                                                         *)
(* One registered, non-demo user.  The store (users, fic_state,            *)
(* moodle_state), the task registry fic_monitor_tasks, the monitor tasks   *)
(* (one step per await of monitor_fic_loop), the chat handlers that touch  *)
(* the same rows, the two portals and a wall clock are the state.          *)
(*                                                                         *)
(* Conventions                                                             *)
(*   - NULL columns: 0 for the integer *_until columns, "" for last_error, *)
(*     <<>> for last_hash / last_snapshot / last_changes (a stored value   *)
(*     v is <<v>>).                                                        *)
(*   - a task's pc names the await it is suspended on; one step performs   *)
(*     that await's effect and runs the synchronous code up to the next    *)
(*     await.                                                              *)
(***************************************************************************)
EXTENDS Integers, Sequences, FiniteSets, TLC

(* ---------------- bounds of the model ---------------- *)
MaxNow == 6
MaxNowCycles == 15
MaxTasks == 2
MaxCommands == 2
MaxPushes == 60
MaxOddBatches == 2
DaySec == 6

(* ---------------- configuration (config.py) ---------------- *)
CHECK_INTERVAL_SEC == 6
MOODLE_CHECK_INTERVAL_SEC == 3
NOTIF_DURATION_DAYS == 2
NOTIF_WARN_BEFORE_DAYS == 1
MOODLE_NOTIF_DURATION_DAYS == 3
MOODLE_NOTIF_MAX_DAYS == 3
MOODLE_NOTIF_WARN_BEFORE_DAYS == 1

(* ---------------- literals of the code ---------------- *)
MinIntervalSec == 5
MinSleepSec == 1
FarFuture == 1000000000
RecentCap == 50
NotifyCap == 8

Max(a, b) == IF a >= b THEN a ELSE b
Min(a, b) == IF a <= b THEN a ELSE b

(* s[:n] *)
Take(s, n) == SubSeq(s, 1, Min(n, Len(s)))

(* ---------------- data domains ---------------- *)
FicKey == [term |-> "T1", code |-> "X"]
FicGrades == {"", "A", "B"}
CourseId == 1
ItemId == "row_1"
ItemId2 == "row_2"
CourseId2 == 2
Grades == {"", "A", "B"}
Pcts == {"", "90%"}
Feedbacks == {"", "ok"}

Dash == <<>>

(* ======================================================================= *)
(* utils.py                                                                *)
(* ======================================================================= *)

(* json.dumps(obj, sort_keys=True, ...): the canonical text of a value.    *)
(* The text is modelled as the one-element sequence holding the value, so  *)
(* that the empty text (NULL / "") is distinguishable.                     *)
normalize_snapshot(obj) == <<obj>>

(* sha256 hex digest, modelled as injective on the canonical text.         *)
compute_hash(text) == [sha256 |-> text]

(* json.loads; falsy input gives the empty dict, modelled as <<>>.         *)
EmptyDict == <<>>

(* Faulty variant of parse_snapshot: the stored text is not read back.     *)
parse_snapshot_Lost(snapshot_json) == EmptyDict

parse_snapshot(snapshot_json) ==
  IF snapshot_json = <<>> THEN EmptyDict ELSE snapshot_json[1]

localize_known_error(err) ==
  IF err = "Invalid username or password." THEN "Invalid login or password."
  ELSE err

(* ---------------- term codes ---------------- *)

(* A text is the sequence of its runs of word characters (what lies        *)
(* between blanks and punctuation), a run the sequence of its characters.  *)
(* re.search(r"\b(\d{6})\b", s): the first run that consists of exactly    *)
(* six digits, as an integer; 0 when there is none or the label is empty.  *)
parse_fic_term_code(term_label) ==
  LET DigitChars == <<"0", "1", "2", "3", "4", "5", "6", "7", "8", "9">>
      IsDigit(ch) == \E d \in DOMAIN DigitChars : DigitChars[d] = ch
      DigitVal(ch) == (CHOOSE d \in DOMAIN DigitChars : DigitChars[d] = ch) - 1
      IsCode(run) == Len(run) = 6 /\ \A i \in DOMAIN run : IsDigit(run[i])
      IntOf(run) == DigitVal(run[1]) * 100000 + DigitVal(run[2]) * 10000
                      + DigitVal(run[3]) * 1000 + DigitVal(run[4]) * 100
                      + DigitVal(run[5]) * 10 + DigitVal(run[6])
      hits == {i \in DOMAIN term_label : IsCode(term_label[i])}
  IN IF hits = {} THEN 0
     ELSE IntOf(term_label[CHOOSE i \in hits : \A j \in hits : i <= j])

(* current_fic_term_code: the Vancouver date gives YYYY01 for January to   *)
(* April, YYYY02 for May to August, YYYY03 for September to December.      *)
current_fic_term_code(today) ==
  today.year * 100 + (IF today.month <= 4 THEN 1 ELSE IF today.month <= 8 THEN 2 ELSE 3)

(* Faulty variant of fic_term_prev: the term before term 1 is term 0.      *)
fic_term_prev_NoRollover(term_code, steps) == term_code - Max(0, steps)

(* fic_term_prev: the loop runs max(0, steps) times on (y, t).             *)
fic_term_prev(term_code, steps) ==
  LET RECURSIVE Back(_, _, _)
      Back(y, t, n) ==
        IF n <= 0 THEN y * 100 + t
        ELSE IF t <= 1 THEN Back(y - 1, 3, n - 1)
        ELSE Back(y, t - 1, n - 1)
  IN Back(term_code \div 100, term_code % 100, steps)

(* Faulty variant of apply_archive_policy: the window is counted from the  *)
(* term before the current one.                                            *)
apply_archive_policy_WindowOff(base_archived, term_label, course_code, active_terms, today) ==
  LET tc == parse_fic_term_code(term_label)
      keep == Min(6, Max(1, active_terms))
  IN \/ \A i \in DOMAIN course_code : course_code[i] = " "
     \/ base_archived
     \/ tc <= 0
     \/ tc < fic_term_prev(current_fic_term_code(today), keep)

(* MoodleClient._apply_archive_policy (portals/moodle_portal.py).  The     *)
(* course code is a sequence of characters, blank when strip() leaves      *)
(* nothing; active_terms is MOODLE_ACTIVE_TERMS, today the date of the     *)
(* call.                                                                   *)
apply_archive_policy(base_archived, term_label, course_code, active_terms, today) ==
  IF \A i \in DOMAIN course_code : course_code[i] = " " THEN TRUE
  ELSE IF base_archived THEN TRUE
  ELSE LET tc == parse_fic_term_code(term_label) IN
       IF tc <= 0 THEN TRUE
       ELSE LET cur == current_fic_term_code(today)
                keep0 == IF active_terms = 0 THEN 1 ELSE active_terms
                keep == IF keep0 < 1 THEN 1 ELSE IF keep0 > 6 THEN 6 ELSE keep0
                oldest_active == fic_term_prev(cur, keep - 1)
            IN tc < oldest_active

(* ======================================================================= *)
(* telegram/messages.py : flat diff                                        *)
(* ======================================================================= *)

(* A grades map is the nested dict {semester: {course_code: grade}} of     *)
(* parse_results, a function from terms to functions from codes to grade   *)
(* strings (trimmed by the parser); the empty dict has the empty domain.   *)
FlatDomain(m) == UNION {{[term |-> t, code |-> c] : c \in DOMAIN m[t]} : t \in DOMAIN m}
flatten_grades_map(m) == [k \in FlatDomain(m) |-> m[k.term][k.code]]

FlatGet(flat, k) == IF k \in DOMAIN flat THEN flat[k] ELSE ""

(* Python's order of the strings that occur as terms, codes and grades.    *)
StrRank(x) ==
  LET StrOrder == <<"", "A", "B", "T1", "T2", "X", "Y">>
  IN CHOOSE i \in DOMAIN StrOrder : StrOrder[i] = x

(* (code, grade) tuples compared as changes.sort(key=...) compares them    *)
PairLeq(p, q) ==
  \/ StrRank(p[1]) < StrRank(q[1])
  \/ p[1] = q[1] /\ StrRank(p[2]) <= StrRank(q[2])

(* The changes of the keys in ascending (code, grade) order.  Keys whose   *)
(* pairs compare equal give equal pairs, so the order among them (the      *)
(* stable sort keeps the dict order) does not show in the result.          *)
RECURSIVE SortedChanges(_, _)
SortedChanges(keys, flat) ==
  IF keys = {} THEN <<>>
  ELSE LET k == CHOOSE x \in keys :
                  \A y \in keys :
                     \/ <<x.code, flat[x]>> # <<y.code, flat[y]>>
                          /\ PairLeq(<<x.code, flat[x]>>, <<y.code, flat[y]>>)
                     \/ <<x.code, flat[x]>> = <<y.code, flat[y]>>
                          /\ StrRank(x.term) <= StrRank(y.term)
       IN << <<k.code, flat[k]>> >> \o SortedChanges(keys \ {k}, flat)

(* Faulty variant of find_new_or_changed_fic_grades: an emptied grade is   *)
(* reported like any other change.                                         *)
find_new_or_changed_fic_grades_ReportsEmpty(prev_snapshot_json, new_map) ==
  LET old_flat == flatten_grades_map(parse_snapshot(prev_snapshot_json))
      new_flat == flatten_grades_map(new_map)
      hit == {k \in DOMAIN new_flat : FlatGet(old_flat, k) # new_flat[k]}
  IN SortedChanges(hit, new_flat)

find_new_or_changed_fic_grades(prev_snapshot_json, new_map) ==
  LET old_flat == flatten_grades_map(parse_snapshot(prev_snapshot_json))
      new_flat == flatten_grades_map(new_map)
      hit == {k \in DOMAIN new_flat :
                /\ new_flat[k] # ""
                /\ FlatGet(old_flat, k) # new_flat[k]}
  IN SortedChanges(hit, new_flat)

(* ======================================================================= *)
(* telegram/messages.py : hierarchical diff                                *)
(* ======================================================================= *)

(* _moodle_compact_pct on the percentages of the model: a whole number of  *)
(* percent is written without decimals, any other with one decimal         *)
(* (f"{num:.1f}%"), so 90.01% and 90.04% are both written 90.0%.           *)
moodle_compact_pct(s) ==
  CASE s \in {"90%", "90.00%"} -> "90%"
    [] s \in {"90.01%", "90.04%"} -> "90.0%"
    [] OTHER -> s

(* moodle_item_compact_value for items without a range: the grade, the     *)
(* grade with the compacted percentage, the compacted percentage alone, or *)
(* the dash.                                                               *)
moodle_item_compact_value(it) ==
  LET pct == moodle_compact_pct(it.percentage) IN
  IF it.grade # "" THEN (IF pct # "" THEN <<it.grade, pct>> ELSE <<it.grade>>)
  ELSE IF pct # "" THEN <<pct>>
  ELSE Dash

(* dict comprehension {item_id: item}: the last item with the id wins.     *)
RECURSIVE LookupItem(_, _)
LookupItem(items, iid) ==
  IF items = <<>> THEN <<>>
  ELSE IF items[Len(items)].item_id = iid THEN <<items[Len(items)]>>
  ELSE LookupItem(SubSeq(items, 1, Len(items) - 1), iid)

RECURSIVE LookupCourse(_, _)
LookupCourse(courses, cid) ==
  IF courses = <<>> THEN <<>>
  ELSE IF courses[Len(courses)].course_id = cid THEN <<courses[Len(courses)]>>
  ELSE LookupCourse(SubSeq(courses, 1, Len(courses) - 1), cid)

SnapshotCourses(snap) == IF snap = EmptyDict THEN <<>> ELSE snap.courses

(* Faulty variant of ItemChange: a grade change and a feedback change of   *)
(* one item are reported as two events.                                    *)
ItemChange_TwoEvents(c, old_items, it) ==
  LET old == LookupItem(old_items, it.item_id)
      ev == << [course |-> c.course_id, old_item |-> old, new_item |-> it] >>
  IN IF it.item_id = "" THEN <<>>
     ELSE IF old = <<>> THEN
        (IF it.grade # "" \/ it.percentage # "" \/ it.feedback # "" THEN ev ELSE <<>>)
     ELSE (IF (it.grade # old[1].grade \/ it.percentage # old[1].percentage)
               /\ (it.grade # "" \/ it.percentage # "") THEN ev ELSE <<>>)
          \o (IF it.feedback # old[1].feedback /\ it.feedback # "" THEN ev ELSE <<>>)

(* The change (if any) one new item yields against the old items.          *)
ItemChange(c, old_items, it) ==
  LET old == LookupItem(old_items, it.item_id) IN
  IF it.item_id = "" THEN <<>>
  ELSE IF old = <<>> THEN
     (IF it.grade # "" \/ it.percentage # "" \/ it.feedback # ""
      THEN << [course |-> c.course_id, old_item |-> <<>>, new_item |-> it] >>
      ELSE <<>>)
  ELSE
     LET old_it == old[1]
         grade_changed == it.grade # old_it.grade \/ it.percentage # old_it.percentage
         feedback_changed == it.feedback # old_it.feedback
     IN IF grade_changed /\ (it.grade # "" \/ it.percentage # "")
        THEN << [course |-> c.course_id, old_item |-> old, new_item |-> it] >>
        ELSE IF feedback_changed /\ it.feedback # ""
        THEN << [course |-> c.course_id, old_item |-> old, new_item |-> it] >>
        ELSE <<>>

RECURSIVE ItemsChanges(_, _, _)
ItemsChanges(c, old_items, items) ==
  IF items = <<>> THEN <<>>
  ELSE ItemChange(c, old_items, Head(items)) \o ItemsChanges(c, old_items, Tail(items))

RECURSIVE CoursesChanges(_, _)
CoursesChanges(prev_courses, new_courses) ==
  IF new_courses = <<>> THEN <<>>
  ELSE LET c == Head(new_courses)
           oc == LookupCourse(prev_courses, c.course_id)
           old_items == IF oc = <<>> THEN <<>> ELSE oc[1].items
       IN ItemsChanges(c, old_items, c.items)
            \o CoursesChanges(prev_courses, Tail(new_courses))

find_new_or_changed_moodle_items(prev_snapshot_json, new_snapshot) ==
  LET prev == IF prev_snapshot_json # <<>> THEN parse_snapshot(prev_snapshot_json)
              ELSE EmptyDict
  IN CoursesChanges(SnapshotCourses(prev), SnapshotCourses(new_snapshot))

(* Faulty variant of RecentOf: every event is given the kind "new".        *)
RecentOf_KindNew(ch) ==
  [course_id |-> ch.course, item_id |-> ch.new_item.item_id,
   new_value |-> moodle_item_compact_value(ch.new_item),
   feedback_changed |-> ch.new_item.feedback # "", kind |-> "new"]

(* One RecentEvent per change; the kind is derived from the old item and   *)
(* the displayed values.                                                   *)
RecentOf(ch) ==
  LET new_it == ch.new_item
      has_old == ch.old_item # <<>>
      new_val == moodle_item_compact_value(new_it)
      old_val == IF has_old THEN moodle_item_compact_value(ch.old_item[1]) ELSE Dash
      old_fb == IF has_old THEN ch.old_item[1].feedback ELSE ""
      feedback_changed == new_it.feedback # "" /\ new_it.feedback # old_fb
      grade_changed == new_val # Dash /\ old_val # new_val
      kind == IF ~has_old THEN "new"
              ELSE IF grade_changed /\ feedback_changed THEN "grade+feedback"
              ELSE IF grade_changed THEN "grade"
              ELSE IF feedback_changed THEN "feedback"
              ELSE ""
  IN [course_id |-> ch.course, item_id |-> new_it.item_id, new_value |-> new_val,
      feedback_changed |-> feedback_changed, kind |-> kind]

RECURSIVE compress_moodle_changes_for_recent(_)
compress_moodle_changes_for_recent(changes) ==
  IF changes = <<>> THEN <<>>
  ELSE LET ch == Head(changes)
           rest == compress_moodle_changes_for_recent(Tail(changes))
       IN IF ch.course <= 0 \/ ch.new_item.item_id = "" THEN rest
          ELSE <<RecentOf(ch)>> \o rest

(* The lines format_moodle_item_change_notification writes for the changes *)
(* of one course.  A line names the item (here by its id) and carries the  *)
(* displayed values, old and new, when they differ and the new one is not  *)
(* the dash ("new: ..." without an old item), and the feedback when it is  *)
(* set and changed; a change with neither part gets no line.               *)
RECURSIVE NotificationLines(_)
NotificationLines(arr) ==
  IF arr = <<>> THEN <<>>
  ELSE LET ch == Head(arr)
           new_it == ch.new_item
           has_old == ch.old_item # <<>>
           old_disp == IF has_old THEN moodle_item_compact_value(ch.old_item[1]) ELSE Dash
           new_disp == moodle_item_compact_value(new_it)
           old_fb == IF has_old THEN ch.old_item[1].feedback ELSE ""
           shown == IF ~has_old THEN <<Dash, new_disp>>
                    ELSE IF old_disp # new_disp /\ new_disp # Dash THEN <<old_disp, new_disp>>
                    ELSE <<>>
           fb == IF new_it.feedback # "" /\ new_it.feedback # old_fb
                 THEN new_it.feedback ELSE ""
       IN (IF shown = <<>> /\ fb = "" THEN <<>>
           ELSE << [item_id |-> new_it.item_id, is_new |-> ~has_old, shown |-> shown,
                    feedback |-> fb] >>)
          \o NotificationLines(Tail(arr))

(* The notification text as its course blocks: the changes are grouped by  *)
(* course in the order in which the courses first occur, and the first     *)
(* NotifyCap changes of each course are written (arr[:8]).  An empty       *)
(* change list gives the empty text.                                       *)
format_moodle_item_change_notification(changes) ==
  LET cids == {changes[i].course : i \in DOMAIN changes}
      FirstAt(cid) == CHOOSE i \in DOMAIN changes :
                        changes[i].course = cid /\ \A j \in 1..(i - 1) : changes[j].course # cid
      order == CHOOSE q \in [1..Cardinality(cids) -> cids] :
                 \A m, n \in DOMAIN q : m < n => FirstAt(q[m]) < FirstAt(q[n])
      Of(cid) == SelectSeq(changes, LAMBDA ch : ch.course = cid)
  IN [i \in DOMAIN order |->
        [course |-> order[i], lines |-> NotificationLines(Take(Of(order[i]), NotifyCap))]]

(* ======================================================================= *)
(* State                                                                   *)
(* ======================================================================= *)
Sources == {"fic", "moodle"}
TaskIds == 1..MaxTasks

VARIABLES
  now,                \* wall clock, time.time()
  users,              \* the user's row: per source [active, until, warned]
  src_state,          \* fic_state / moodle_state rows of the user
  ficPortal,          \* grades map shown by the final-grades page
  moodlePortal,       \* items of the course's grade report
  fic_monitor_tasks,  \* registry entry of the user: a task id, 0 when absent
  tasks,              \* the monitor tasks created so far
  stop,               \* the /stop handler in flight
  refresh,            \* the force-refresh handler in flight
  outbox,             \* what the last step sent through bot.send_message
  commands,           \* commands, refreshes, restarts and portal edits so far
  obs,                \* observations for the properties (no effect on the code)
  call                \* a diff function applied on its own: arguments and result

vars == <<now, users, src_state, ficPortal, moodlePortal, fic_monitor_tasks,
          tasks, stop, refresh, outbox, commands, obs, call>>

(* ---------------- config-derived values ---------------- *)
LeaseSec(src) ==
  IF src = "fic" THEN NOTIF_DURATION_DAYS * DaySec
  ELSE Min(MOODLE_NOTIF_DURATION_DAYS, MOODLE_NOTIF_MAX_DAYS) * DaySec

WarnWindow(src) ==
  IF src = "fic" THEN Max(0, NOTIF_WARN_BEFORE_DAYS) * DaySec
  ELSE Max(0, MOODLE_NOTIF_WARN_BEFORE_DAYS) * DaySec

(* max(5, int(CHECK_INTERVAL_SEC)) / max(5, int(MOODLE_CHECK_INTERVAL_SEC)) *)
NextDueDelay(src) ==
  IF src = "fic" THEN Max(MinIntervalSec, CHECK_INTERVAL_SEC)
  ELSE Max(MinIntervalSec, MOODLE_CHECK_INTERVAL_SEC)

(* ======================================================================= *)
(* db/database.py                                                          *)
(* ======================================================================= *)
(* No row.  Of updated_at a row keeps whether it is the present second     *)
(* (fresh): the store operations set it to datetime.now(), every step of   *)
(* the clock makes it a past time.                                         *)
NoRow == [last_hash |-> <<>>, last_snapshot |-> <<>>, last_error |-> "",
          last_changes |-> <<>>, fresh |-> FALSE]

set_active(u, src, active, t) ==
  [u EXCEPT ![src] = [active |-> active,
                      until |-> IF active THEN t + LeaseSec(src) ELSE 0,
                      warned |-> FALSE]]

set_warned(u, src, w) == [u EXCEPT ![src].warned = w]

save_credentials(u, t) ==
  [src \in Sources |-> [active |-> TRUE, until |-> t + LeaseSec(src), warned |-> FALSE]]

(* The UPDATE at the end of the users migrations: every non-demo row with  *)
(* moodle_active = 0 is switched on, keeping a non-NULL expiry.            *)
init_db(u, t) ==
  IF ~u["moodle"].active
  THEN [u EXCEPT !["moodle"] =
          [active |-> TRUE,
           until |-> IF u["moodle"].until # 0 THEN u["moodle"].until
                     ELSE t + LeaseSec("moodle"),
           warned |-> FALSE]]
  ELSE u

(* update_fic_snapshot; updated_at = datetime.now() of the call            *)
update_snapshot(row, snapshot_json, h) ==
  [row EXCEPT !.last_snapshot = snapshot_json, !.last_hash = h, !.last_error = "",
              !.fresh = TRUE]

(* Second statement of update_moodle_snapshot: COALESCE keeps the stored   *)
(* list when no merged list is passed (last_changes = NULL, here <<>>).    *)
update_moodle_snapshot_write(row, snapshot_json, h, last_changes) ==
  [row EXCEPT !.last_snapshot = snapshot_json, !.last_hash = h, !.last_error = "",
              !.fresh = TRUE,
              !.last_changes = IF last_changes # <<>> THEN last_changes
                               ELSE row.last_changes]

(* Faulty variant of update_moodle_snapshot_merge: the new events are put  *)
(* after the stored ones.                                                  *)
update_moodle_snapshot_merge_Appends(row, recent_events) ==
  LET existing == IF row.last_changes # <<>> THEN row.last_changes[1] ELSE <<>>
  IN << Take(existing \o recent_events, RecentCap) >>

(* First statement of update_moodle_snapshot: merged = (events + existing)[:50], *)
(* returned as the JSON text json.dumps(merged).                           *)
update_moodle_snapshot_merge(row, recent_events) ==
  LET existing == IF row.last_changes # <<>> THEN row.last_changes[1] ELSE <<>>
  IN << Take(recent_events \o existing, RecentCap) >>

(* set_fic_error / set_moodle_error: the error text (None, here "", clears *)
(* it) and updated_at = datetime.now() are stored.                         *)
set_error(row, err) == [row EXCEPT !.last_error = err, !.fresh = TRUE]

(* get_fic_state / get_moodle_state, as far as the diff uses the row       *)
Baseline(row) == [last_hash |-> row.last_hash, last_snapshot |-> row.last_snapshot]

(* ======================================================================= *)
(* monitoring/monitoring.py : the monitor task                             *)
(* ======================================================================= *)
NoUser == [src \in Sources |-> [active |-> FALSE, until |-> 0, warned |-> FALSE]]
NoSt == [last_hash |-> <<>>, last_snapshot |-> <<>>]

FetchError == "Invalid username or password."
CourseError == "HTTP 500"

(* A task that is not running: never created, or finished.                 *)
DoneTask ==
  [pc |-> "done", cancel |-> FALSE, phase |-> "pre", user |-> NoUser,
   next_ts |-> [src \in Sources |-> 0], wake |-> 0, fetched |-> <<>>,
   err |-> "", st |-> NoSt, merged |-> <<>>, wake_at |-> 0]

(* asyncio.create_task(monitor_fic_loop(bot, user_id)): not yet started.   *)
NewTask == [DoneTask EXCEPT !.pc = "start"]

(* The loop was left (break, cancellation or error): finally, line 240.    *)
ToClose == [DoneTask EXCEPT !.pc = "close", !.phase = "loop"]

Live(t) == tasks[t].pc # "done"
At(t, pc) == tasks[t].pc = pc /\ ~tasks[t].cancel
SetTask(t, tk) == tasks' = [tasks EXCEPT ![t] = tk]

(* pcs outside the try block of monitor_fic_loop (lines 126-139)           *)
PreTryPc(tk) == tk.phase = "pre"

BothOff(u) == ~u["fic"].active /\ ~u["moodle"].active

(* Locals of one fetch-and-diff cycle are dead once the cycle is over.     *)
ClearCycle(tk) == [tk EXCEPT !.fetched = <<>>, !.err = "", !.st = NoSt, !.merged = <<>>]

(* Faulty variant of GoSleep: the next-due timestamp of a source counts    *)
(* whether the source is active or not.                                    *)
GoSleep_AllSources(tk, t) ==
  LET sleep_for == Max(MinSleepSec, Min(tk.next_ts["fic"], tk.next_ts["moodle"]) - t)
  IN [ClearCycle(tk) EXCEPT !.pc = "sleep", !.wake_at = t + sleep_for, !.wake = 0]

(* lines 228-232: sleep until the nearer next-due timestamp                *)
GoSleep(tk, t) ==
  LET n1 == IF tk.user["fic"].active THEN tk.next_ts["fic"] ELSE t + FarFuture
      n2 == IF tk.user["moodle"].active THEN tk.next_ts["moodle"] ELSE t + FarFuture
      sleep_for == Max(MinSleepSec, Min(n1, n2) - t)
  IN [ClearCycle(tk) EXCEPT !.pc = "sleep", !.wake_at = t + sleep_for, !.wake = 0]

(* line 195 *)
DueMoodle(tk, t) ==
  IF tk.user["moodle"].active /\ tk.wake >= tk.next_ts["moodle"]
  THEN [ClearCycle(tk) EXCEPT !.pc = "moodle_fetch"]
  ELSE GoSleep(tk, t)

(* line 167 *)
DueFic(tk, t) ==
  IF tk.user["fic"].active /\ tk.wake >= tk.next_ts["fic"]
  THEN [tk EXCEPT !.pc = "fic_fetch"]
  ELSE DueMoodle(tk, t)

(* Faulty variant of Finally: the interval is counted from the end of the  *)
(* attempt instead of from the wake time.                                  *)
Finally_FromNow(tk, src, t) ==
  LET k == [tk EXCEPT !.next_ts[src] = t + NextDueDelay(src)]
  IN IF src = "fic" THEN DueMoodle(k, t) ELSE GoSleep(k, t)

(* the finally clauses, lines 191-192 and 223-224 *)
Finally(tk, src, t) ==
  LET k == [tk EXCEPT !.next_ts[src] = tk.wake + NextDueDelay(src)]
  IN IF src = "fic" THEN DueMoodle(k, t) ELSE GoSleep(k, t)

(* Faulty variant of AfterEnforce: the loop is not left when both sources  *)
(* are off.                                                                *)
AfterEnforce_NoBreak(tk, t) ==
  IF tk.phase = "pre" THEN [tk EXCEPT !.pc = "playwright"]
  ELSE DueFic([tk EXCEPT !.wake = t], t)

(* After both expiry checks: lines 138-139 before the loop, 157-164 in it. *)
AfterEnforce(tk, t) ==
  IF tk.phase = "pre" THEN [tk EXCEPT !.pc = "playwright"]
  ELSE IF BothOff(tk.user) THEN ToClose
  ELSE DueFic([tk EXCEPT !.wake = t], t)

(* _enforce_fic_expiry / _enforce_moodle_expiry up to their first await,   *)
(* on the user record the caller holds.  Rows are written by               *)
(* save_credentials, set_*_active and init_db only, so an active source    *)
(* always has an expiry timestamp and the ensure_*_until_set call of the   *)
(* first lines is not taken.                                               *)
EnforceExpiry(tk, src, t, cont) ==
  LET u == tk.user[src]
      remaining == u.until - t
  IN IF ~u.active THEN cont
     ELSE IF u.until = 0 THEN cont
     ELSE IF remaining <= 0 THEN [tk EXCEPT !.pc = src \o "_off"]
     ELSE IF WarnWindow(src) > 0 /\ remaining <= WarnWindow(src) /\ ~u.warned
          THEN [tk EXCEPT !.pc = src \o "_warn_send"]
     ELSE cont

EnterMoodle(tk, t) == EnforceExpiry(tk, "moodle", t, AfterEnforce(tk, t))
EnterFic(tk, t) == EnforceExpiry(tk, "fic", t, EnterMoodle(tk, t))

(* What follows a finished expiry check of a source that returned True.    *)
AfterCheck(tk, src, t) == IF src = "fic" THEN EnterMoodle(tk, t) ELSE AfterEnforce(tk, t)

(* A step of the bot itself that sends nothing.                            *)
Quiet == outbox' = <<>> /\ commands' = commands

(* A step started from outside: a command, a restart, a portal edit.       *)
Command == commands < MaxCommands /\ commands' = commands + 1 /\ outbox' = <<>>

(* line 126: first read of the user record, fast path                      *)
MonStart(t) ==
  /\ At(t, "start")
  /\ LET tk == [tasks[t] EXCEPT !.user = users] IN
       IF BothOff(users) THEN SetTask(t, DoneTask)
       ELSE SetTask(t, EnterFic(tk, now))
  /\ Quiet
  /\ UNCHANGED <<call, now, users, src_state, ficPortal, moodlePortal, fic_monitor_tasks,
                 stop, refresh, obs>>

(* lines 138-142: the fetcher service is created, the loop is entered      *)
MonPlaywright(t) ==
  /\ At(t, "playwright")
  /\ SetTask(t, [tasks[t] EXCEPT !.pc = "get_user", !.phase = "loop"])
  /\ Quiet
  /\ UNCHANGED <<call, now, users, src_state, ficPortal, moodlePortal, fic_monitor_tasks,
                 stop, refresh, obs>>

(* line 146: the user record is re-read on each wake                       *)
MonGetUser(t) ==
  /\ At(t, "get_user")
  /\ LET tk == [tasks[t] EXCEPT !.user = users] IN
       IF BothOff(users) THEN SetTask(t, ToClose)
       ELSE SetTask(t, EnterFic(tk, now))
  /\ Quiet
  /\ UNCHANGED <<call, now, users, src_state, ficPortal, moodlePortal, fic_monitor_tasks,
                 stop, refresh, obs>>

(* ---------------- lease expiry and warning (lines 39-121) -------------- *)

(* lines 56 / 97: the expired source is switched off in the store          *)
MonExpireOff(t, src) ==
  /\ At(t, src \o "_off")
  /\ users' = set_active(users, src, FALSE, now)
  /\ SetTask(t, [tasks[t] EXCEPT !.pc = src \o "_off_notice"])
  /\ obs' = [obs EXCEPT !.autoOff[src] = TRUE, !.warns[src] = 0]
  /\ Quiet
  /\ UNCHANGED <<call, now, src_state, ficPortal, moodlePortal, fic_monitor_tasks, stop, refresh>>

(* lines 57-64 / 99-106: the auto-off notice; the check returns False.     *)
(* Before the loop the task returns (lines 133-136); in the loop the user  *)
(* record is read again (lines 153, 155).                                  *)
MonExpireNotice(t, src) ==
  /\ At(t, src \o "_off_notice")
  /\ outbox' = << [kind |-> "auto_off", src |-> src] >>
  /\ commands' = commands
  /\ IF tasks[t].phase = "pre" THEN SetTask(t, DoneTask)
     ELSE SetTask(t, [tasks[t] EXCEPT !.pc = src \o "_reread"])
  /\ UNCHANGED <<call, now, users, src_state, ficPortal, moodlePortal, fic_monitor_tasks,
                 stop, refresh, obs>>

(* lines 153 / 155: user = await db.get_user(user_id) or user              *)
MonReread(t, src) ==
  /\ At(t, src \o "_reread")
  /\ LET tk == [tasks[t] EXCEPT !.user = users] IN SetTask(t, AfterCheck(tk, src, now))
  /\ Quiet
  /\ UNCHANGED <<call, now, users, src_state, ficPortal, moodlePortal, fic_monitor_tasks,
                 stop, refresh, obs>>

(* lines 71-77 / 112-118: the pre-expiry warning is sent                   *)
MonWarnSend(t, src) ==
  /\ At(t, src \o "_warn_send")
  /\ outbox' = << [kind |-> "warning", src |-> src] >>
  /\ commands' = commands
  /\ SetTask(t, [tasks[t] EXCEPT !.pc = src \o "_set_warned"])
  /\ obs' = [obs EXCEPT !.warns[src] = Min(2, obs.warns[src] + 1)]
  /\ UNCHANGED <<call, now, users, src_state, ficPortal, moodlePortal, fic_monitor_tasks,
                 stop, refresh>>

(* lines 78 / 119: the warned flag is stored; the check returns True and   *)
(* the caller goes on with the record it holds.                            *)
MonSetWarned(t, src) ==
  /\ At(t, src \o "_set_warned")
  /\ users' = set_warned(users, src, TRUE)
  /\ SetTask(t, AfterCheck(tasks[t], src, now))
  /\ Quiet
  /\ UNCHANGED <<call, now, src_state, ficPortal, moodlePortal, fic_monitor_tasks, stop,
                 refresh, obs>>

(* ---------------- fetch-and-diff cycle (lines 166-224) ----------------- *)

(* fetched_at is the time of the fetch, never the same for two fetches:    *)
(* the stamp is the least one no stored or held snapshot carries.          *)
StampsOf(x) ==
  (IF x.last_hash # <<>> /\ "fetched_at" \in DOMAIN x.last_hash.sha256[1]
     THEN {x.last_hash.sha256[1].fetched_at} ELSE {})
  \cup (IF x.last_snapshot # <<>> /\ "fetched_at" \in DOMAIN x.last_snapshot[1]
     THEN {x.last_snapshot[1].fetched_at} ELSE {})

FetchedStamp(f) ==
  IF f # <<>> /\ "fetched_at" \in DOMAIN f[1] THEN {f[1].fetched_at} ELSE {}

MoodlePcs == {"moodle_clear_err", "moodle_get_state", "moodle_update", "moodle_merge",
              "moodle_write", "moodle_send"}

UsedStamps ==
  StampsOf(src_state["moodle"])
  \cup UNION {IF tasks[t].pc \in MoodlePcs
              THEN StampsOf(tasks[t].st) \cup FetchedStamp(tasks[t].fetched)
              ELSE {} : t \in TaskIds}
  \cup (IF refresh.src = "moodle"
        THEN StampsOf(refresh.st) \cup FetchedStamp(refresh.fetched) ELSE {})

FreshStamp == CHOOSE n \in 0..(3 * MaxTasks + 4) :
                 /\ n \notin UsedStamps
                 /\ \A m \in 0..(n - 1) : m \in UsedStamps

(* Faulty variant of fetch_course: a failed report fetch leaves a record   *)
(* that looks like a course without items, with no error text.             *)
fetch_course_Unmarked(course_id, report) ==
  [course_id |-> course_id,
   items |-> IF report.error = "" THEN report.items ELSE <<>>,
   error |-> ""]

(* fetch_course of get_full_snapshot (and the loop body of the browser     *)
(* variant): the course record of one report fetch.  report.items is what  *)
(* the report page holds, report.error the text of the exception the fetch *)
(* raised ("" when it raised none): the except clause returns the course   *)
(* with "items": [] and "error": str(e).                                   *)
fetch_course(course_id, report) ==
  IF report.error = ""
  THEN [course_id |-> course_id, items |-> report.items, error |-> ""]
  ELSE [course_id |-> course_id, items |-> <<>>, error |-> report.error]

(* get_full_snapshot: asyncio.gather returns the course records in the     *)
(* order of the overview's courses.                                        *)
get_full_snapshot(reports, stamp) ==
  [courses |-> [i \in DOMAIN reports |-> fetch_course(reports[i].course_id, reports[i])],
   fetched_at |-> stamp]

(* The snapshot of the monitored account: one course; a failed report      *)
(* fetch gives the course with its error text and no items.                *)
MoodleSnapshot(course_failed, stamp) ==
  get_full_snapshot(<< [course_id |-> CourseId, items |-> moodlePortal,
                        error |-> IF course_failed THEN CourseError ELSE ""] >>, stamp)

(* Values a fetch of the source can return.                                *)
FetchResults(src) ==
  IF src = "fic" THEN {ficPortal} ELSE {MoodleSnapshot(FALSE, FreshStamp)}

(* lines 169 / 197: the fetch returns                                      *)
MonFetchOk(t, src) ==
  /\ At(t, src \o "_fetch")
  /\ \E data \in FetchResults(src) :
       SetTask(t, [tasks[t] EXCEPT !.pc = src \o "_clear_err", !.fetched = <<data>>])
  /\ Quiet
  /\ UNCHANGED <<call, now, users, src_state, ficPortal, moodlePortal, fic_monitor_tasks,
                 stop, refresh, obs>>

(* line 197 returns a snapshot in which the course's report fetch failed    *)
MonFetchCourseFailed(t) ==
  /\ At(t, "moodle_fetch")
  /\ SetTask(t, [tasks[t] EXCEPT !.pc = "moodle_clear_err",
                    !.fetched = <<MoodleSnapshot(TRUE, FreshStamp)>>])
  /\ Quiet
  /\ UNCHANGED <<call, now, users, src_state, ficPortal, moodlePortal, fic_monitor_tasks,
                 stop, refresh, obs>>

(* lines 169 / 197 raise: control goes to the except clause                *)
MonFetchFail(t, src) ==
  /\ At(t, src \o "_fetch")
  /\ SetTask(t, [tasks[t] EXCEPT !.pc = src \o "_set_err", !.err = FetchError])
  /\ obs' = [obs EXCEPT !.failBase[src] = <<Baseline(src_state[src])>>]
  /\ Quiet
  /\ UNCHANGED <<call, now, users, src_state, ficPortal, moodlePortal, fic_monitor_tasks,
                 stop, refresh>>

(* lines 170 / 198: set_*_error(user_id, None)                              *)
MonClearErr(t, src) ==
  /\ At(t, src \o "_clear_err")
  /\ src_state' = [src_state EXCEPT ![src] = set_error(@, "")]
  /\ SetTask(t, [tasks[t] EXCEPT !.pc = src \o "_get_state"])
  /\ Quiet
  /\ UNCHANGED <<call, now, users, ficPortal, moodlePortal, fic_monitor_tasks, stop, refresh, obs>>

HashOf(fetched) == compute_hash(normalize_snapshot(fetched[1]))

ChangesOf(src, st, fetched) ==
  IF src = "fic" THEN find_new_or_changed_fic_grades(st.last_snapshot, fetched[1])
  ELSE find_new_or_changed_moodle_items(st.last_snapshot, fetched[1])

(* lines 172-179 / 200-207: hash, stored state, the three-way branch       *)
MonGetState(t, src) ==
  /\ At(t, src \o "_get_state")
  /\ LET st == Baseline(src_state[src])
         tk == [tasks[t] EXCEPT !.st = st]
         h == HashOf(tk.fetched)
     IN IF st.last_hash = <<>> THEN SetTask(t, [tk EXCEPT !.pc = src \o "_update"])
        ELSE IF h # st.last_hash
        THEN SetTask(t, [tk EXCEPT !.pc = IF src = "fic" THEN "fic_update"
                                          ELSE "moodle_merge"])
        ELSE SetTask(t, Finally(tk, src, now))
  /\ obs' = [obs EXCEPT !.failBase[src] = <<>>]
  /\ Quiet
  /\ UNCHANGED <<call, now, users, src_state, ficPortal, moodlePortal, fic_monitor_tasks,
                 stop, refresh>>

(* Faulty variant of AfterUpdate: the first baseline is diffed against the *)
(* empty store and its grades are notified.                                *)
AfterUpdate_FirstNotified(tk, src, t) ==
  IF ChangesOf(src, tk.st, tk.fetched) # <<>>
  THEN [tk EXCEPT !.pc = src \o "_send"]
  ELSE Finally(tk, src, t)

(* What follows the store of the new baseline: lines 185-187 / 216-218.    *)
AfterUpdate(tk, src, t) ==
  IF tk.st.last_hash # <<>> /\ ChangesOf(src, tk.st, tk.fetched) # <<>>
  THEN [tk EXCEPT !.pc = src \o "_send"]
  ELSE Finally(tk, src, t)

(* lines 178, 184, 206: update_*_snapshot(user_id, snapshot_json, h)       *)
MonUpdate(t, src) ==
  /\ At(t, src \o "_update")
  /\ src_state' = [src_state EXCEPT ![src] =
        IF src = "fic"
        THEN update_snapshot(@, normalize_snapshot(tasks[t].fetched[1]),
                             HashOf(tasks[t].fetched))
        ELSE update_moodle_snapshot_write(@, normalize_snapshot(tasks[t].fetched[1]),
                                          HashOf(tasks[t].fetched), <<>>)]
  /\ SetTask(t, AfterUpdate(tasks[t], src, now))
  /\ Quiet
  /\ UNCHANGED <<call, now, users, ficPortal, moodlePortal, fic_monitor_tasks, stop, refresh, obs>>

(* line 215, first statement of update_moodle_snapshot: the stored recent  *)
(* events are read and merged with the new ones                            *)
MonMoodleMerge(t) ==
  /\ At(t, "moodle_merge")
  /\ LET events == compress_moodle_changes_for_recent(
                      ChangesOf("moodle", tasks[t].st, tasks[t].fetched))
     IN SetTask(t, [tasks[t] EXCEPT !.pc = "moodle_write",
                      !.merged = update_moodle_snapshot_merge(src_state["moodle"], events)])
  /\ Quiet
  /\ UNCHANGED <<call, now, users, src_state, ficPortal, moodlePortal, fic_monitor_tasks,
                 stop, refresh, obs>>

(* line 215, second statement: baseline and merged list are written        *)
MonMoodleWrite(t) ==
  /\ At(t, "moodle_write")
  /\ src_state' = [src_state EXCEPT !["moodle"] =
        update_moodle_snapshot_write(@, normalize_snapshot(tasks[t].fetched[1]),
                                     HashOf(tasks[t].fetched), tasks[t].merged)]
  /\ SetTask(t, AfterUpdate(tasks[t], "moodle", now))
  /\ Quiet
  /\ UNCHANGED <<call, now, users, ficPortal, moodlePortal, fic_monitor_tasks, stop, refresh, obs>>

(* The values of the items a Moodle change list reports.                   *)
ItemValue(it) == [grade |-> it.grade, percentage |-> it.percentage, feedback |-> it.feedback]
NotifiedValues(src, changes) ==
  IF src = "fic" THEN {} ELSE {ItemValue(changes[i].new_item) : i \in DOMAIN changes}

(* lines 186-187 / 217-218: the change notification is sent; the Moodle    *)
(* text is made by format_moodle_item_change_notification.  Observed: the  *)
(* items of the changes that come after the first NotifyCap changes of     *)
(* their course.                                                           *)
MonSend(t, src) ==
  /\ At(t, src \o "_send")
  /\ LET changes == ChangesOf(src, tasks[t].st, tasks[t].fetched)
         Withheld ==
           {changes[i].new_item.item_id : i \in
              {k \in DOMAIN changes :
                 Cardinality({j \in 1..k : changes[j].course = changes[k].course})
                    > NotifyCap}}
     IN
       /\ outbox' = << [kind |-> "changes", src |-> src, changes |-> changes,
                        text |-> IF src = "fic" THEN <<>>
                                 ELSE format_moodle_item_change_notification(changes)] >>
       /\ commands' = commands
       /\ obs' = IF src = "fic" THEN obs
                 ELSE [obs EXCEPT !.notified = NotifiedValues(src, changes),
                                  !.withheld = Withheld]
  /\ SetTask(t, Finally(tasks[t], src, now))
  /\ UNCHANGED <<call, now, users, src_state, ficPortal, moodlePortal, fic_monitor_tasks,
                 stop, refresh>>

(* lines 189-190 / 221-222: except Exception -> set_*_error(localized text) *)
MonSetErr(t, src) ==
  /\ At(t, src \o "_set_err")
  /\ src_state' = [src_state EXCEPT ![src] = set_error(@, localize_known_error(tasks[t].err))]
  /\ SetTask(t, Finally(tasks[t], src, now))
  /\ Quiet
  /\ UNCHANGED <<call, now, users, ficPortal, moodlePortal, fic_monitor_tasks, stop, refresh, obs>>

(* line 232: asyncio.sleep(sleep_for) returns                              *)
MonWake(t) ==
  /\ At(t, "sleep")
  /\ now >= tasks[t].wake_at
  /\ SetTask(t, [tasks[t] EXCEPT !.pc = "get_user", !.wake_at = 0])
  /\ Quiet
  /\ UNCHANGED <<call, now, users, src_state, ficPortal, moodlePortal, fic_monitor_tasks,
                 stop, refresh, obs>>

(* lines 239-244: svc.close() returns, the registry entry is popped        *)
MonClose(t) ==
  /\ At(t, "close")
  /\ fic_monitor_tasks' = 0
  /\ SetTask(t, DoneTask)
  /\ Quiet
  /\ UNCHANGED <<call, now, users, src_state, ficPortal, moodlePortal, stop, refresh, obs>>

(* Awaits outside the two fetch blocks at which an unexpected exception is *)
(* modelled: the user-record reads (with the credential decryption that    *)
(* follows them) and the sends of the lease notices.                       *)
RaisePcs ==
  {"start", "get_user", "fic_reread", "moodle_reread", "fic_off_notice",
   "moodle_off_notice", "fic_warn_send", "moodle_warn_send"}

(* Faulty variant of OnRaise: the exception ends the loop unrecorded.      *)
OnRaise_Unrecorded(tk) ==
  IF tk.phase = "pre" THEN DoneTask ELSE ToClose

(* Where an exception takes the task: before the try block it ends the     *)
(* task; inside, line 236 catches it and line 237 is awaited.              *)
OnRaise(tk) ==
  IF tk.phase = "pre" THEN DoneTask
  ELSE [ClearCycle(tk) EXCEPT !.pc = "loop_set_err", !.err = "Monitor error"]

(* the await raises an Exception; its effect does not take place           *)
MonRaise(t) ==
  /\ Live(t)
  /\ ~tasks[t].cancel
  /\ tasks[t].pc \in RaisePcs
  /\ SetTask(t, OnRaise(tasks[t]))
  /\ Command
  /\ UNCHANGED <<call, now, users, src_state, ficPortal, moodlePortal, fic_monitor_tasks,
                 stop, refresh, obs>>

(* line 237: set_fic_error(user_id, f"Monitor error: {e}"), then finally   *)
MonLoopSetErr(t) ==
  /\ At(t, "loop_set_err")
  /\ src_state' = [src_state EXCEPT !["fic"] = set_error(@, tasks[t].err)]
  /\ SetTask(t, ToClose)
  /\ Quiet
  /\ UNCHANGED <<call, now, users, ficPortal, moodlePortal, fic_monitor_tasks, stop, refresh, obs>>

(* Faulty variant of OnCancelled: the except clauses of the fetch blocks    *)
(* (lines 189, 220) catch the cancellation like a failed fetch.            *)
OnCancelled_AsFetchError(tk) ==
  IF tk.phase = "pre" \/ tk.pc = "close" THEN DoneTask
  ELSE IF tk.pc \in {"fic_fetch", "fic_clear_err", "fic_get_state", "fic_update", "fic_send"}
       THEN [tk EXCEPT !.pc = "fic_set_err", !.err = "CancelledError", !.cancel = FALSE]
  ELSE IF tk.pc \in {"moodle_fetch", "moodle_clear_err", "moodle_get_state",
                     "moodle_update", "moodle_merge", "moodle_write", "moodle_send"}
       THEN [tk EXCEPT !.pc = "moodle_set_err", !.err = "CancelledError", !.cancel = FALSE]
  ELSE ToClose

(* Where CancelledError takes the task: it is not an Exception, so neither *)
(* line 189 / 220 nor line 236 / 241 catches it.                           *)
OnCancelled(tk) ==
  IF tk.phase = "pre" \/ tk.pc = "close" THEN DoneTask ELSE ToClose

(* CancelledError is raised at the await the task is suspended on.  Outside *)
(* the try block (lines 124-139) and inside the finally clause (line 241,  *)
(* except Exception does not catch it) the task ends at once; inside the   *)
(* try block line 234 swallows it and the finally clause runs.             *)
MonCancelled(t) ==
  /\ Live(t)
  /\ tasks[t].cancel
  /\ SetTask(t, OnCancelled(tasks[t]))
  /\ Quiet
  /\ UNCHANGED <<call, now, users, src_state, ficPortal, moodlePortal, fic_monitor_tasks,
                 stop, refresh, obs>>

(* ======================================================================= *)
(* monitoring/monitoring.py : registry                                     *)
(* ======================================================================= *)
FreeSlotsOf(tks, st) ==
  {t \in TaskIds : tks[t].pc = "done" /\ ~(st.pc = "await" /\ st.t = t)}
FreeSlots == FreeSlotsOf(tasks, stop)

(* Faulty variant of ensure_fic_task: no check of the registered task.     *)
ensure_fic_task_Unguarded(reg, tks, st) ==
  LET free == FreeSlotsOf(tks, st)
      slot == CHOOSE t \in free : \A s \in free : t <= s
  IN <<slot, [tks EXCEPT ![slot] = NewTask]>>

(* ensure_fic_task: the pair (registry entry, tasks) after the call; the   *)
(* new task takes the least free slot.                                     *)
ensure_fic_task(reg, tks, st) ==
  IF reg # 0 /\ tks[reg].pc # "done" THEN <<reg, tks>>
  ELSE LET free == FreeSlotsOf(tks, st)
           slot == CHOOSE t \in free : \A s \in free : t <= s
       IN <<slot, [tks EXCEPT ![slot] = NewTask]>>

Ensure ==
  /\ fic_monitor_tasks' = ensure_fic_task(fic_monitor_tasks, tasks, stop)[1]
  /\ tasks' = ensure_fic_task(fic_monitor_tasks, tasks, stop)[2]

(* ======================================================================= *)
(* telegram/handlers : commands touching the scheduler                     *)
(* ======================================================================= *)
IdleStop == [pc |-> "idle", t |-> 0]
IdleRefresh == [pc |-> "idle", src |-> "fic", st |-> NoSt, fetched |-> <<>>, merged |-> <<>>]

UserEnabled(o, src) == [o EXCEPT !.autoOff[src] = FALSE, !.warns[src] = 0]

(* /start_monitor: set_fic_active(uid, True); ensure_fic_task(bot, uid)    *)
cmd_start_monitor ==
  /\ FreeSlots # {}
  /\ users' = set_active(users, "fic", TRUE, now)
  /\ Ensure
  /\ obs' = UserEnabled(obs, "fic")
  /\ Command
  /\ UNCHANGED <<call, now, src_state, ficPortal, moodlePortal, stop, refresh>>

(* registration (mode "register"): save_credentials, then ensure_fic_task  *)
got_password ==
  /\ FreeSlots # {}
  /\ users' = save_credentials(users, now)
  /\ Ensure
  /\ obs' = UserEnabled(UserEnabled(obs, "fic"), "moodle")
  /\ Command
  /\ UNCHANGED <<call, now, src_state, ficPortal, moodlePortal, stop, refresh>>

(* /stop, first await: cancel_task_safely(fic_monitor_tasks.get(uid))      *)
cmd_stop ==
  /\ stop.pc = "idle"
  /\ IF fic_monitor_tasks # 0 /\ Live(fic_monitor_tasks)
     THEN /\ tasks' = [tasks EXCEPT ![fic_monitor_tasks].cancel = TRUE]
          /\ stop' = [pc |-> "await", t |-> fic_monitor_tasks]
     ELSE /\ tasks' = tasks
          /\ stop' = [pc |-> "fic_off", t |-> 0]
  /\ Command
  /\ UNCHANGED <<call, now, users, src_state, ficPortal, moodlePortal, fic_monitor_tasks,
                 refresh, obs>>

(* cancel_task_safely: "await t" returns once the task is done             *)
cmd_stop_awaited ==
  /\ stop.pc = "await"
  /\ ~Live(stop.t)
  /\ stop' = [pc |-> "fic_off", t |-> 0]
  /\ Quiet
  /\ UNCHANGED <<call, now, users, src_state, ficPortal, moodlePortal, fic_monitor_tasks,
                 tasks, refresh, obs>>

(* /stop: set_fic_active(uid, False)                                       *)
cmd_stop_fic_off ==
  /\ stop.pc = "fic_off"
  /\ users' = set_active(users, "fic", FALSE, now)
  /\ stop' = [pc |-> "moodle_off", t |-> 0]
  /\ obs' = [obs EXCEPT !.warns["fic"] = 0]
  /\ Quiet
  /\ UNCHANGED <<call, now, src_state, ficPortal, moodlePortal, fic_monitor_tasks, tasks, refresh>>

(* /stop: set_moodle_active(uid, False)                                    *)
cmd_stop_moodle_off ==
  /\ stop.pc = "moodle_off"
  /\ users' = set_active(users, "moodle", FALSE, now)
  /\ stop' = IdleStop
  /\ obs' = [obs EXCEPT !.warns["moodle"] = 0]
  /\ Quiet
  /\ UNCHANGED <<call, now, src_state, ficPortal, moodlePortal, fic_monitor_tasks, tasks, refresh>>

(* ======================================================================= *)
(* telegram/handlers/grades.py : force refresh                             *)
(* ======================================================================= *)

(* cb_grades_force_refresh / cb_moodle_force_refresh up to the fetch: the  *)
(* stored state is read (lines 165, 200)                                   *)
force_refresh_start(src) ==
  /\ refresh.pc = "idle"
  /\ refresh' = [IdleRefresh EXCEPT !.pc = "fetch", !.src = src,
                   !.st = Baseline(src_state[src])]
  /\ Command
  /\ UNCHANGED <<call, now, users, src_state, ficPortal, moodlePortal, fic_monitor_tasks,
                 tasks, stop, obs>>

(* fetch_fic_grades_map / fetch_moodle_snapshot return: the error column   *)
(* is cleared (lines 51, 74)                                               *)
force_refresh_fetched ==
  /\ refresh.pc = "fetch"
  /\ \E data \in FetchResults(refresh.src) :
       LET r == [refresh EXCEPT !.fetched = <<data>>] IN
       refresh' = [r EXCEPT !.pc =
                     IF r.src = "moodle" /\ r.st.last_hash # <<>>
                        /\ r.st.last_hash # HashOf(r.fetched)
                     THEN "merge" ELSE "write"]
  /\ src_state' = [src_state EXCEPT ![refresh.src] = set_error(@, "")]
  /\ Quiet
  /\ UNCHANGED <<call, now, users, ficPortal, moodlePortal, fic_monitor_tasks, tasks, stop, obs>>

(* the fetch raises: the error is shown in the view, nothing is stored     *)
(* (lines 188-191, 233-236)                                                *)
force_refresh_failed ==
  /\ refresh.pc = "fetch"
  /\ refresh' = IdleRefresh
  /\ Quiet
  /\ UNCHANGED <<call, now, users, src_state, ficPortal, moodlePortal, fic_monitor_tasks,
                 tasks, stop, obs>>

(* cb_moodle_force_refresh, line 221: update_moodle_snapshot reads and     *)
(* merges the recent events                                                *)
force_refresh_merge ==
  /\ refresh.pc = "merge"
  /\ LET events == compress_moodle_changes_for_recent(
                      ChangesOf("moodle", refresh.st, refresh.fetched))
     IN refresh' = [refresh EXCEPT !.pc = "write",
                      !.merged = update_moodle_snapshot_merge(src_state["moodle"], events)]
  /\ Quiet
  /\ UNCHANGED <<call, now, users, src_state, ficPortal, moodlePortal, fic_monitor_tasks,
                 tasks, stop, obs>>

(* lines 176 / 221: the fetched snapshot becomes the stored baseline       *)
force_refresh_write ==
  /\ refresh.pc = "write"
  /\ src_state' = [src_state EXCEPT ![refresh.src] =
        IF refresh.src = "fic"
        THEN update_snapshot(@, normalize_snapshot(refresh.fetched[1]),
                             HashOf(refresh.fetched))
        ELSE update_moodle_snapshot_write(@, normalize_snapshot(refresh.fetched[1]),
                                          HashOf(refresh.fetched), refresh.merged)]
  /\ refresh' = IdleRefresh
  /\ Quiet
  /\ UNCHANGED <<call, now, users, ficPortal, moodlePortal, fic_monitor_tasks, tasks, stop, obs>>

(* ======================================================================= *)
(* Environment: the portals, the clock, the process                        *)
(* ======================================================================= *)
FicPortalValues == {(FicKey.term :> (FicKey.code :> g)) : g \in FicGrades}

MoodleItems ==
  {[item_id |-> ItemId, grade |-> g, percentage |-> "", feedback |-> f] :
     g \in Grades, f \in Feedbacks}
MoodlePortalValues == {<<>>} \cup {<<it>> : it \in MoodleItems}

(* the college publishes or changes a final grade                          *)
FicPortalChange ==
  /\ \E v \in FicPortalValues : v # ficPortal /\ ficPortal' = v
  /\ Command
  /\ UNCHANGED <<call, now, users, src_state, moodlePortal, fic_monitor_tasks, tasks, stop,
                 refresh, obs>>

(* a teacher adds or edits the grade item                                  *)
MoodlePortalChange ==
  /\ \E v \in MoodlePortalValues : v # moodlePortal /\ moodlePortal' = v
  /\ obs' = [obs EXCEPT !.notified = {}]
  /\ Command
  /\ UNCHANGED <<call, now, users, src_state, ficPortal, fic_monitor_tasks, tasks, stop, refresh>>

(* a teacher publishes the grades of nine items of the course at once     *)
MoodlePortalBurst ==
  /\ LET BurstIds == <<"row_1", "row_2", "row_3", "row_4", "row_5", "row_6", "row_7",
                       "row_8", "row_9">>
         BurstItems ==
           [i \in 1..(NotifyCap + 1) |->
              [item_id |-> BurstIds[i], grade |-> "A", percentage |-> "", feedback |-> ""]]
     IN moodlePortal # BurstItems /\ moodlePortal' = BurstItems
  /\ obs' = [obs EXCEPT !.notified = {}]
  /\ Command
  /\ UNCHANGED <<call, now, users, src_state, ficPortal, fic_monitor_tasks, tasks, stop, refresh>>

(* The clock counts seconds.  Store operations and message sends complete   *)
(* within the second; time passes while every task sleeps, waits for a     *)
(* portal, or starts or closes the browser, and no handler is in a store   *)
(* operation.                                                              *)
SlowPcs == {"done", "playwright", "fic_fetch", "moodle_fetch", "sleep", "close"}
TimePasses ==
  /\ \A t \in TaskIds : tasks[t].pc \in SlowPcs /\ ~tasks[t].cancel
  /\ stop.pc \in {"idle", "await"}
  /\ refresh.pc \in {"idle", "fetch"}

TickTo(horizon) ==
  /\ now < horizon
  /\ TimePasses
  /\ now' = now + 1
  /\ src_state' = [src \in Sources |-> [src_state[src] EXCEPT !.fresh = FALSE]]
  /\ Quiet
  /\ UNCHANGED <<call, users, ficPortal, moodlePortal, fic_monitor_tasks, tasks,
                 stop, refresh, obs>>

Tick == TickTo(MaxNow)

(* Nothing happens until the sleeping task is due: the clock jumps there.  *)
SleepThrough ==
  /\ TimePasses
  /\ \E t \in TaskIds :
       /\ tasks[t].pc = "sleep"
       /\ now < tasks[t].wake_at
       /\ tasks[t].wake_at <= MaxNowCycles
       /\ now' = tasks[t].wake_at
  /\ src_state' = [src \in Sources |-> [src_state[src] EXCEPT !.fresh = FALSE]]
  /\ Quiet
  /\ UNCHANGED <<call, users, ficPortal, moodlePortal, fic_monitor_tasks, tasks,
                 stop, refresh, obs>>

(* resume_tasks_on_start in the new process: empty registry, no task      *)
resume_tasks_on_start(u) ==
  LET none == [t \in TaskIds |-> DoneTask] IN
  IF u["fic"].active \/ u["moodle"].active
  THEN ensure_fic_task(0, none, [pc |-> "idle", t |-> 0])
  ELSE <<0, none>>

(* The process ends (every task and handler with it) and app.main runs     *)
(* again: init_db, then resume_tasks_on_start.                             *)
Restart ==
  /\ users' = init_db(users, now)
  /\ stop' = IdleStop
  /\ refresh' = IdleRefresh
  /\ fic_monitor_tasks' = resume_tasks_on_start(users')[1]
  /\ tasks' = resume_tasks_on_start(users')[2]
  /\ obs' = IF users' # users THEN [obs EXCEPT !.warns["moodle"] = 0] ELSE obs
  /\ Command
  /\ UNCHANGED <<call, now, src_state, ficPortal, moodlePortal>>

(* ======================================================================= *)
(* Specifications                                                          *)
(* ======================================================================= *)

(* Rows a previous run of the bot can have left: a source is off, or on    *)
(* with half a day or a whole lease left.                                  *)
PersistedUntil(src) == {DaySec \div 2, LeaseSec(src)}
PersistedUsers ==
  {u \in [Sources -> [active : BOOLEAN, until : 0..LeaseSec("moodle"), warned : {FALSE}]] :
     \A src \in Sources :
        IF u[src].active THEN u[src].until \in PersistedUntil(src) ELSE u[src].until = 0}

NoObs == [autoOff |-> [src \in Sources |-> FALSE], warns |-> [src \in Sources |-> 0],
          notified |-> {}, failBase |-> [src \in Sources |-> <<>>], withheld |-> {}]

(* No diff function is being applied on its own.                          *)
NoCall == [fn |-> "none", prev |-> <<>>, new |-> <<>>, fetch |-> <<>>, out |-> <<>>,
           done |-> FALSE, pushes |-> 0, odd |-> 0]

InitRest ==
  /\ call = NoCall
  /\ src_state = [src \in Sources |-> NoRow]
  /\ ficPortal = (FicKey.term :> (FicKey.code :> "A"))
  /\ moodlePortal = <<>>
  /\ fic_monitor_tasks = resume_tasks_on_start(users)[1]
  /\ tasks = resume_tasks_on_start(users)[2]
  /\ stop = IdleStop
  /\ refresh = IdleRefresh
  /\ outbox = <<>>
  /\ commands = 0
  /\ obs = NoObs

(* The process has just started: init_db and resume_tasks_on_start ran.    *)
Init ==
  /\ now = 0
  /\ users \in {init_db(u, 0) : u \in PersistedUsers}
  /\ InitRest

MonitorStep(t) ==
  \/ MonStart(t) \/ MonPlaywright(t) \/ MonGetUser(t) \/ MonWake(t)
  \/ MonMoodleMerge(t) \/ MonMoodleWrite(t)
  \/ \E src \in Sources :
       \/ MonExpireOff(t, src) \/ MonExpireNotice(t, src) \/ MonReread(t, src)
       \/ MonWarnSend(t, src) \/ MonSetWarned(t, src)
       \/ MonFetchOk(t, src) \/ MonFetchFail(t, src) \/ MonClearErr(t, src)
       \/ MonGetState(t, src) \/ MonUpdate(t, src) \/ MonSetErr(t, src)

(* The steps that need a portal to change or a course report to fail.      *)
ChangeStep(t) ==
  \/ MonFetchCourseFailed(t)
  \/ \E src \in Sources : MonSend(t, src)

(* An unexpected exception and its handling.                               *)
FailStep(t) == MonRaise(t) \/ MonLoopSetErr(t)

(* The scheduler: tasks, leases, commands, restarts.  The portals stand still. *)
Next ==
  \/ \E t \in TaskIds : MonitorStep(t) \/ MonClose(t) \/ MonCancelled(t) \/ FailStep(t)
  \/ cmd_start_monitor \/ got_password
  \/ cmd_stop \/ cmd_stop_awaited \/ cmd_stop_fic_off \/ cmd_stop_moodle_off
  \/ Restart
  \/ Tick

Spec == Init /\ [][Next]_vars

(* The event loop runs every ready task and handler, the fetcher returns,  *)
(* and time passes.                                                        *)
Fairness ==
  /\ WF_vars(\E t \in TaskIds : MonitorStep(t) \/ MonClose(t) \/ MonCancelled(t))
  /\ WF_vars(cmd_stop_awaited \/ cmd_stop_fic_off \/ cmd_stop_moodle_off)
  /\ WF_vars(Tick)

(* One run of the process: the tasks, /start_monitor, /stop and the clock. *)
NextRun ==
  \/ \E t \in TaskIds : MonitorStep(t) \/ MonClose(t) \/ MonCancelled(t)
  \/ cmd_start_monitor
  \/ cmd_stop \/ cmd_stop_awaited \/ cmd_stop_fic_off \/ cmd_stop_moodle_off
  \/ Tick

SpecFair == Init /\ [][NextRun]_vars /\ Fairness

(* The user registered just before the process started: whole leases.      *)
InitData ==
  /\ now = 0
  /\ users = init_db(save_credentials(NoUser, 0), 0)
  /\ InitRest

(* The change detector: the portals change between the polling cycles.     *)
NextCycles ==
  \/ \E t \in TaskIds : MonitorStep(t) \/ ChangeStep(t)
  \/ FicPortalChange \/ MoodlePortalChange
  \/ SleepThrough

SpecCycles == InitData /\ [][NextCycles]_vars

(* The change detector when many items of the course change at once.      *)
NextBurst == NextCycles \/ MoodlePortalBurst

SpecBurst == InitData /\ [][NextBurst]_vars

(* The change detector next to the force-refresh handlers.                 *)
NextData ==
  \/ NextCycles
  \/ \E src \in Sources : force_refresh_start(src)
  \/ force_refresh_fetched \/ force_refresh_failed \/ force_refresh_merge
  \/ force_refresh_write

SpecData == InitData /\ [][NextData]_vars

(* ---------------- parsers/moodle_results.py : the course report --------- *)

(* An attribute value (an id, a class) is the sequence of its characters,  *)
(* a text the sequence of its words.  A report table is its header labels  *)
(* after the first and its rows; a row has the classes of the tr, whether  *)
(* it has a th, the id and classes of the th, the text of the th, the      *)
(* gradeitemheader element inside it (none, or one with a title and a      *)
(* text) and the texts of its td cells.                                    *)

(* re.match(prefix + r"(\d+)", s): the length of the match, 0 for none.    *)
MatchDigits(prefix, s) ==
  LET IsDigit(ch) == ch \in {"0", "1", "2", "3", "4", "5", "6", "7", "8", "9"}
      k == Len(prefix)
      n == IF Len(s) >= k /\ SubSeq(s, 1, k) = prefix
           THEN CHOOSE m \in 0..(Len(s) - k) :
                  /\ \A i \in 1..m : IsDigit(s[k + i])
                  /\ k + m = Len(s) \/ ~IsDigit(s[k + m + 1])
           ELSE 0
  IN IF n = 0 THEN 0 ELSE k + n

(* _row_level: the number of the first class "level<digits>", else 0.      *)
row_level(class_list) ==
  LET Lv == <<"l", "e", "v", "e", "l">>
      DigitChars == <<"0", "1", "2", "3", "4", "5", "6", "7", "8", "9">>
      DigitVal(ch) == (CHOOSE d \in DOMAIN DigitChars : DigitChars[d] = ch) - 1
      RECURSIVE IntOf(_)
      IntOf(run) == IF run = <<>> THEN 0
                    ELSE 10 * IntOf(SubSeq(run, 1, Len(run) - 1)) + DigitVal(run[Len(run)])
      hits == {i \in DOMAIN class_list : MatchDigits(Lv, class_list[i]) > 0}
  IN IF hits = {} THEN 0
     ELSE LET x == class_list[CHOOSE i \in hits : \A j \in hits : i <= j]
          IN IntOf(SubSeq(x, Len(Lv) + 1, MatchDigits(Lv, x)))

(* lines 238-254, one round of the loop over the category rows: nothing    *)
(* for a row that is skipped, else the id, level and name it enters.       *)
(* _strip_expand_collapse_tokens drops the words Collapse and Expand.      *)
category_row(tr) ==
  LET CatPrefix == <<"c", "a", "t", "_">>
      Category == <<"c", "a", "t", "e", "g", "o", "r", "y">>
      name == SelectSeq(tr.text, LAMBDA w : w \notin {"Collapse", "Expand", "collapse", "expand"})
  IN IF /\ tr.th
        /\ MatchDigits(CatPrefix, tr.th_id) > 0
        /\ \E i \in DOMAIN tr.th_classes : tr.th_classes[i] = Category
        /\ name # <<>>
     THEN << [cat_id |-> SubSeq(tr.th_id, Len(CatPrefix) + 1, MatchDigits(CatPrefix, tr.th_id)),
              level |-> row_level(tr.th_classes), name |-> name] >>
     ELSE <<>>

(* lines 236-255: cat_info[cat_id] = (level, name) is assigned for each    *)
(* category row in table order, so the dict holds for each id what the     *)
(* last row with that id assigned.                                         *)
cat_info(rows) ==
  LET Entering == {i \in DOMAIN rows : category_row(rows[i]) # <<>>}
      Entry(i) == category_row(rows[i])[1]
      Ids == {Entry(i).cat_id : i \in Entering}
      Last(cid) == CHOOSE i \in Entering :
                     /\ Entry(i).cat_id = cid
                     /\ \A j \in Entering : Entry(j).cat_id = cid => j <= i
  IN [cid \in Ids |-> [level |-> Entry(Last(cid)).level, name |-> Entry(Last(cid)).name]]

(* parse_moodle_course_report, lines 205-347.  The sha1 digest of the      *)
(* fallback id is an injective mark "#" followed by the hashed text: equal *)
(* texts give equal ids, different texts different ids.                    *)
parse_moodle_course_report(table) ==
  LET rows == table.rows
      RowPrefix == <<"r", "o", "w", "_">>
      CatPrefix == <<"c", "a", "t", "_">>
      Category == <<"c", "a", "t", "e", "g", "o", "r", "y">>
      Has(classes, c) == \E i \in DOMAIN classes : classes[i] = c
      \* lines 222-233
      KeyOf(label) ==
        CASE label = "Grade" -> "grade"
          [] label = "Range" -> "range"
          [] label = "Percentage" -> "percentage"
          [] label = "Feedback" -> "feedback"
          [] OTHER -> "none"
      col_keys == [i \in DOMAIN table.header |-> KeyOf(table.header[i])]
      info == cat_info(rows)
      \* lines 260-275
      IsItemRow(tr) ==
        /\ ~Has(tr.tr_classes, <<"s", "p", "a", "c", "e", "r">>)
        /\ tr.th
        /\ ~Has(tr.th_classes, <<"h", "e", "a", "d", "e", "r">>)
        /\ ~(/\ Len(tr.th_id) >= 4 /\ SubSeq(tr.th_id, 1, 4) = CatPrefix
             /\ Has(tr.th_classes, Category))
      RECURSIVE Join(_)
      Join(classes) ==
        IF classes = <<>> THEN <<>>
        ELSE IF Len(classes) = 1 THEN classes[1]
        ELSE classes[1] \o <<"|">> \o Join(Tail(classes))
      \* lines 277-285
      item_id(tr) ==
        IF MatchDigits(RowPrefix, tr.th_id) > 0
        THEN SubSeq(tr.th_id, 1, MatchDigits(RowPrefix, tr.th_id))
        ELSE RowPrefix \o <<"#">> \o tr.th_id \o <<"|">> \o Join(tr.tr_classes)
                       \o <<"|">> \o tr.text
      \* lines 287-293
      name(tr) ==
        IF tr.hdr = <<>> THEN tr.text
        ELSE IF tr.hdr[1].title # <<>> THEN tr.hdr[1].title ELSE tr.hdr[1].text
      \* lines 301-311: the names of the row's categories, by level, a
      \* stable sort
      cats(tr) ==
        LET Ids == [i \in DOMAIN tr.tr_classes |->
                      LET c == tr.tr_classes[i]
                      IN IF MatchDigits(CatPrefix, c) > 0
                         THEN SubSeq(c, 5, MatchDigits(CatPrefix, c)) ELSE <<>>]
            Known == SelectSeq(Ids, LAMBDA x : x # <<>> /\ x \in DOMAIN info)
        IN [i \in DOMAIN Known |-> info[Known[i]]]
      RECURSIVE Sorted(_)
      Sorted(cs) ==
        IF cs = <<>> THEN <<>>
        ELSE LET i == CHOOSE a \in DOMAIN cs :
                        /\ \A b \in DOMAIN cs : cs[a].level <= cs[b].level
                        /\ \A b \in 1..(a - 1) : cs[b].level > cs[a].level
             IN <<cs[i]>> \o Sorted(SubSeq(cs, 1, i - 1) \o SubSeq(cs, i + 1, Len(cs)))
      category_path(tr) == LET s == Sorted(cats(tr)) IN [i \in DOMAIN s |-> s[i].name]
      \* lines 313-334: the last cell of a column key; a cell that is one of
      \* the three dashes of _DASHES (the two long ones written by name here)
      \* reads as empty
      Value(tr, key) ==
        LET hits == {i \in DOMAIN tr.cells : i <= Len(col_keys) /\ col_keys[i] = key}
        IN IF hits = {} THEN ""
           ELSE LET v == tr.cells[CHOOSE i \in hits : \A j \in hits : j <= i]
                IN IF v \in {"-", "en dash", "em dash"} THEN "" ELSE v
      Item(tr) ==
        [item_id |-> item_id(tr), name |-> name(tr), grade |-> Value(tr, "grade"),
         range |-> Value(tr, "range"), percentage |-> Value(tr, "percentage"),
         feedback |-> Value(tr, "feedback"), level |-> row_level(tr.th_classes),
         category_path |-> category_path(tr)]
      item_rows == SelectSeq(rows, IsItemRow)
  IN [i \in DOMAIN item_rows |-> Item(item_rows[i])]

(* ---------------- the diff functions applied on their own -------------- *)

(* Calls of the flat diff: grades maps of up to two terms with up to two   *)
(* courses each; the stored snapshot is the canonical text of such a map,  *)
(* or NULL.                                                                *)
FlatCalls ==
  LET FlatTerms == {"T1", "T2"}
      FlatCodes == {"X", "Y"}
      CodeMaps == UNION {[cs -> FicGrades] : cs \in (SUBSET FlatCodes) \ {{}}}
      GradeMaps == UNION {[ts -> CodeMaps] : ts \in SUBSET FlatTerms}
  IN {[fn |-> "flat", prev |-> p, new |-> n, fetch |-> <<>>, out |-> <<>>, done |-> FALSE,
       pushes |-> 0, odd |-> 0] :
        p \in {<<>>} \cup {normalize_snapshot(m) : m \in GradeMaps}, n \in GradeMaps}

(* Calls of the hierarchical diff, each preceded by the fetch that builds  *)
(* the new snapshot from the report fetches of the courses.  The first     *)
(* course has no, one or two items, the second of them empty, graded or    *)
(* commented; the second course has one graded item.  The report fetch of  *)
(* either course may fail, the failed course coming first or last.  The    *)
(* stored snapshot is NULL, the canonical text of an earlier snapshot, or  *)
(* that of the new snapshot itself.  Further calls have one item on both   *)
(* sides whose percentage is written with two decimals (90.00%, 90.01%,    *)
(* 90.04%).                                                                *)
TreeCalls ==
  LET ItemsOf(iid) ==
        {[item_id |-> iid, grade |-> g, percentage |-> p, feedback |-> f] :
           g \in Grades, p \in Pcts, f \in Feedbacks}
      SecondItems ==
        {[item_id |-> ItemId2, grade |-> g, percentage |-> "", feedback |-> f] :
           <<g, f>> \in {<<"", "">>, <<"A", "">>, <<"", "ok">>}}
      PrevItemLists ==
        {<<>>} \cup {<<a>> : a \in ItemsOf(ItemId)}
               \cup {<<a, b>> : a \in ItemsOf(ItemId), b \in SecondItems}
      NewItemLists ==
        PrevItemLists \cup {<<b, a>> : a \in ItemsOf(ItemId), b \in SecondItems}
      PreciseItems ==
        {[item_id |-> ItemId, grade |-> g, percentage |-> p, feedback |-> f] :
           g \in {"", "A"}, p \in {"90.00%", "90.01%", "90.04%"}, f \in Feedbacks}
      Report(cid, items, err) == [course_id |-> cid, items |-> items, error |-> err]
      SecondReport(g, err) ==
        Report(CourseId2, << [item_id |-> ItemId, grade |-> g, percentage |-> "",
                              feedback |-> ""] >>, err)
      PrevSnapshots ==
        {get_full_snapshot(rs, 0) :
           rs \in {<<SecondReport("A", "")>>}
                  \cup {<<Report(CourseId, l, "")>> : l \in PrevItemLists}
                  \cup {<<Report(CourseId, l, ""), SecondReport("A", "")>> :
                           l \in PrevItemLists}}
      NewReports ==
        {<<Report(CourseId, l, "")>> : l \in NewItemLists}
          \cup {<<Report(CourseId, l, ""), SecondReport("B", "")>> : l \in NewItemLists}
          \cup {<<Report(CourseId, l, ""), SecondReport("B", CourseError)>> :
                   l \in NewItemLists}
          \cup {<<SecondReport("B", CourseError), Report(CourseId, l, "")>> :
                   l \in NewItemLists}
          \cup {<<Report(CourseId, <<a>>, CourseError), SecondReport("B", "")>> :
                   a \in ItemsOf(ItemId)}
  IN {[fn |-> "fetch", prev |-> p, new |-> <<>>, fetch |-> rs, out |-> <<>>,
       done |-> FALSE, pushes |-> 0, odd |-> 0] :
        p \in {<<>>} \cup {normalize_snapshot(m) : m \in PrevSnapshots}, rs \in NewReports}
     \cup {[fn |-> "fetch", prev |-> normalize_snapshot(get_full_snapshot(rs, 1)),
            new |-> <<>>, fetch |-> rs, out |-> <<>>, done |-> FALSE, pushes |-> 0,
            odd |-> 0] : rs \in NewReports}
     \cup {[fn |-> "fetch",
            prev |-> normalize_snapshot(get_full_snapshot(<<Report(CourseId, <<a>>, "")>>, 0)),
            new |-> <<>>, fetch |-> <<Report(CourseId, <<b>>, "")>>, out |-> <<>>,
            done |-> FALSE, pushes |-> 0, odd |-> 0] :
              a \in PreciseItems, b \in PreciseItems}

(* Calls of the helpers.  Archive policy: a course code that is empty,     *)
(* blank or set; a term label without a term code (no run, a word, five or *)
(* seven digits, six zeros, letters joined to the digits), with one of the *)
(* seven term codes 202303 .. 202503 alone or after "FIC" or after a run   *)
(* that is no code, or with two codes; every month of 2025; the configured *)
(* number of active terms from 0 to 7.  Term stepping: the nine terms of   *)
(* 2023 to 2025 and 0 to 7 steps.  Report parser: tables of one to three   *)
(* rows, with or without a Grade column, the rows drawn from four category *)
(* rows (two with the category id 7 and different names, one with id 8,    *)
(* one whose name is only the word Expand), five item rows (ids row_12_3,  *)
(* row_12_4 and row_13_3, two rows without an id) and a header row; a row  *)
(* may occur twice in a table.                                             *)
UtilCalls ==
  LET Util(fn, args) == [NoCall EXCEPT !.fn = fn, !.new = args]
      Digits(n) ==
        LET DigitChars == <<"0", "1", "2", "3", "4", "5", "6", "7", "8", "9">>
        IN [i \in 1..6 |-> DigitChars[((n \div (10 ^ (6 - i))) % 10) + 1]]
      TermCodes == {202303, 202401, 202402, 202403, 202501, 202502, 202503}
      Fic == <<"F", "I", "C">>
      NoCode == {<<>>, <<Fic>>, <<Fic, <<"2", "0", "2", "5", "0">> >>,
                 << <<"2", "0", "2", "5", "0", "3", "1">> >>, <<Digits(0)>>,
                 << Fic \o Digits(202503) >>}
      Labels ==
        NoCode \cup {<<Digits(c)>> : c \in TermCodes}
               \cup {<<Fic, Digits(c)>> : c \in TermCodes}
               \cup {<< <<"2", "0", "2", "5", "0">>, Digits(c) >> : c \in {202401, 202503}}
               \cup {<<Digits(c), Digits(202503)>> : c \in {202303, 202502}}
      CourseCodes == {<<>>, <<" ">>, <<"C", "1">>}
      Category == <<"c", "a", "t", "e", "g", "o", "r", "y">>
      Level(d) == <<"l", "e", "v", "e", "l", d>>
      Cat(d) == <<"c", "a", "t", "_", d>>
      CatRow(d, u, lvl, text) ==
        [tr_classes |-> <<>>, th |-> TRUE, th_id |-> Cat(d) \o <<"_", "5", u>>,
         th_classes |-> <<Category, Level(lvl)>>, text |-> text, hdr |-> <<>>,
         cells |-> <<>>]
      ItemRow(tid, classes, text, hdr, cells) ==
        [tr_classes |-> classes, th |-> TRUE, th_id |-> tid,
         th_classes |-> <<Level("3"), <<"i", "t", "e", "m">> >>, text |-> text,
         hdr |-> hdr, cells |-> cells]
      Rows ==
        {CatRow("7", "5", "1", <<"Labs", "Collapse">>), CatRow("7", "6", "2", <<"Exams">>),
         CatRow("8", "5", "2", <<"Quizzes">>), CatRow("7", "7", "1", <<"Expand">>),
         ItemRow(<<"r", "o", "w", "_", "1", "2", "_", "3">>, <<Cat("8"), Cat("7")>>,
                 <<"Quiz">>, << [title |-> <<"Quiz", "1">>, text |-> <<"Quiz">>] >>,
                 <<"A", "0-100", "90%", "ok">>),
         ItemRow(<<"r", "o", "w", "_", "1", "2", "_", "4">>, <<Cat("7")>>,
                 <<"Quiz">>, << [title |-> <<>>, text |-> <<"Quiz", "2">>] >>,
                 <<"B", "0-100", "80%", "-">>),
         ItemRow(<<"r", "o", "w", "_", "1", "3", "_", "3">>, <<Cat("7"), Cat("8")>>,
                 <<"Lab">>, <<>>, <<"-", "0-100", "-", "">>),
         ItemRow(<<>>, <<Cat("7")>>, <<"Quiz">>, <<>>, <<"A", "0-100", "90%", "">>),
         ItemRow(<<>>, <<>>, <<"Lab">>, <<>>, <<"em dash", "0-100", "", "">>),
         [tr_classes |-> <<>>, th |-> TRUE, th_id |-> <<>>,
          th_classes |-> << <<"h", "e", "a", "d", "e", "r">> >>, text |-> <<"Grade", "item">>,
          hdr |-> <<>>, cells |-> <<>>]}
      Tables ==
        {[header |-> h, rows |-> rs] :
           h \in {<<"Grade", "Range", "Percentage", "Feedback">>,
                  <<"Calculated weight", "Range", "Percentage", "Feedback">>},
           rs \in UNION {[1..n -> Rows] : n \in 1..3}}
  IN {Util("archive", [base_archived |-> b, term_label |-> l, course_code |-> cc,
                       active_terms |-> k, today |-> [year |-> 2025, month |-> m]]) :
        b \in BOOLEAN, l \in Labels, cc \in CourseCodes, k \in 0..7, m \in 1..12}
     \cup {Util("term", [term_code |-> y * 100 + t, steps |-> n]) :
             y \in 2023..2025, t \in 1..3, n \in 0..7}
     \cup {Util("parse", t) : t \in Tables}

(* No user, no task: only the function under study runs.                   *)
InitDiff ==
  /\ \/ call \in FlatCalls \cup TreeCalls
     \/ call \in UtilCalls
  /\ now = 0
  /\ users = NoUser
  /\ src_state = [src \in Sources |-> NoRow]
  /\ ficPortal = (FicKey.term :> (FicKey.code :> "A"))
  /\ moodlePortal = <<>>
  /\ fic_monitor_tasks = 0
  /\ tasks = [t \in TaskIds |-> DoneTask]
  /\ stop = IdleStop
  /\ refresh = IdleRefresh
  /\ outbox = <<>>
  /\ commands = 0
  /\ obs = NoObs

(* messages.find_new_or_changed_fic_grades(prev_snapshot_json, new_map)    *)
fic_diff_call ==
  /\ call.fn = "flat"
  /\ ~call.done
  /\ call' = [call EXCEPT !.out = find_new_or_changed_fic_grades(call.prev, call.new),
                          !.done = TRUE]
  /\ UNCHANGED <<now, users, src_state, ficPortal, moodlePortal, fic_monitor_tasks,
                 tasks, stop, refresh, outbox, commands, obs>>

(* MoodleClient.get_full_snapshot: the report fetches return or raise     *)
moodle_fetch_call ==
  /\ call.fn = "fetch"
  /\ call' = [call EXCEPT !.fn = "tree", !.new = get_full_snapshot(call.fetch, 1)]
  /\ UNCHANGED <<now, users, src_state, ficPortal, moodlePortal, fic_monitor_tasks,
                 tasks, stop, refresh, outbox, commands, obs>>

(* messages.find_new_or_changed_moodle_items(prev_snapshot_json, new_snapshot) *)
moodle_diff_call ==
  /\ call.fn = "tree"
  /\ ~call.done
  /\ call' = [call EXCEPT !.out = find_new_or_changed_moodle_items(call.prev, call.new),
                          !.done = TRUE]
  /\ UNCHANGED <<now, users, src_state, ficPortal, moodlePortal, fic_monitor_tasks,
                 tasks, stop, refresh, outbox, commands, obs>>

(* MoodleClient._apply_archive_policy(base_archived, term_label, course_code) *)
archive_call ==
  /\ call.fn = "archive"
  /\ ~call.done
  /\ call' = [call EXCEPT !.out = apply_archive_policy(call.new.base_archived,
                                      call.new.term_label, call.new.course_code,
                                      call.new.active_terms, call.new.today),
                          !.done = TRUE]
  /\ UNCHANGED <<now, users, src_state, ficPortal, moodlePortal, fic_monitor_tasks,
                 tasks, stop, refresh, outbox, commands, obs>>

(* utils.fic_term_prev(term_code, steps)                                   *)
term_prev_call ==
  /\ call.fn = "term"
  /\ ~call.done
  /\ call' = [call EXCEPT !.out = fic_term_prev(call.new.term_code, call.new.steps),
                          !.done = TRUE]
  /\ UNCHANGED <<now, users, src_state, ficPortal, moodlePortal, fic_monitor_tasks,
                 tasks, stop, refresh, outbox, commands, obs>>

(* parsers.parse_moodle_course_report(html); out holds the returned list   *)
(* and, beside it, the category table the call built.                      *)
parse_report_call ==
  /\ call.fn = "parse"
  /\ ~call.done
  /\ call' = [call EXCEPT !.out = [items |-> parse_moodle_course_report(call.new),
                                   cat_info |-> cat_info(call.new.rows)],
                          !.done = TRUE]
  /\ UNCHANGED <<now, users, src_state, ficPortal, moodlePortal, fic_monitor_tasks,
                 tasks, stop, refresh, outbox, commands, obs>>

NextDiff ==
  \/ fic_diff_call \/ moodle_fetch_call \/ moodle_diff_call
  \/ archive_call \/ term_prev_call \/ parse_report_call

SpecDiff == InitDiff /\ [][NextDiff]_vars

(* ---------------- the recent events of the Moodle row ------------------ *)

(* The store before the first Moodle baseline update; call.out lists every *)
(* event handed to an update so far, the latest update first.              *)
InitRecent ==
  /\ call = [NoCall EXCEPT !.fn = "recent"]
  /\ now = 0
  /\ users = NoUser
  /\ src_state = [src \in Sources |-> NoRow]
  /\ ficPortal = (FicKey.term :> (FicKey.code :> "A"))
  /\ moodlePortal = <<>>
  /\ fic_monitor_tasks = 0
  /\ tasks = [t \in TaskIds |-> DoneTask]
  /\ stop = IdleStop
  /\ refresh = IdleRefresh
  /\ outbox = <<>>
  /\ commands = 0
  /\ obs = NoObs

(* update_moodle_snapshot(user_id, snapshot_json, h, recent_events=events), *)
(* both statements, with size events stamped with the number of the update *)
update_moodle_snapshot_call(size) ==
  /\ call.fn = "recent"
  /\ call.pushes < MaxPushes
  /\ LET n == call.pushes + 1
         ids == <<ItemId, ItemId2>>
         events == [i \in 1..size |-> [ts |-> n, item_id |-> ids[i]]]
         snapshot_json == normalize_snapshot(get_full_snapshot(<<>>, n))
         row == src_state["moodle"]
     IN /\ src_state' = [src_state EXCEPT !["moodle"] =
              update_moodle_snapshot_write(row, snapshot_json, compute_hash(snapshot_json),
                                           update_moodle_snapshot_merge(row, events))]
        /\ call' = [call EXCEPT !.pushes = n, !.new = events, !.out = events \o call.out,
                                !.odd = IF size = 1 THEN @ ELSE @ + 1]
  /\ UNCHANGED <<now, users, ficPortal, moodlePortal, fic_monitor_tasks,
                 tasks, stop, refresh, outbox, commands, obs>>

(* A cycle with one change; now and then a cycle has none or two.          *)
NextRecent ==
  \/ update_moodle_snapshot_call(1)
  \/ \E size \in {0, 2} : call.odd < MaxOddBatches /\ update_moodle_snapshot_call(size)

SpecRecent == InitRecent /\ [][NextRecent]_vars

(* ======================================================================= *)
(* Properties                                                              *)
(* ======================================================================= *)

MoodleNotification(box) ==
  box # <<>> /\ box[1].kind = "changes" /\ box[1].src = "moodle"

(* C1: a Moodle item value that was handed to the notifier is not handed   *)
(* to it again while the portal keeps showing the same grade, percentage   *)
(* and feedback: no notification carries a value notified since the last   *)
(* edit of the item at the portal.                                         *)
C1_NotifiedAtMostOnce ==
  [][MoodleNotification(outbox') =>
       NotifiedValues("moodle", outbox'[1].changes) \cap obs.notified = {}]_vars

(* ---- the hierarchical diff seen from a running cycle ---- *)
BaselineItem(tk) ==
  IF tk.st.last_snapshot = <<>> THEN <<>>
  ELSE LET oc == LookupCourse(SnapshotCourses(parse_snapshot(tk.st.last_snapshot)), CourseId)
       IN IF oc = <<>> THEN <<>> ELSE LookupItem(oc[1].items, ItemId)

FetchedItem(tk) ==
  LET c == LookupCourse(SnapshotCourses(tk.fetched[1]), CourseId)
  IN IF c = <<>> THEN <<>> ELSE LookupItem(c[1].items, ItemId)

AllEmpty(it) == it.grade = "" /\ it.percentage = "" /\ it.feedback = ""

CycleEvents(tk) ==
  compress_moodle_changes_for_recent(ChangesOf("moodle", tk.st, tk.fetched))

(* The cycle is about to persist its recent events: the item was not in    *)
(* the baseline and is fetched with nothing filled in.                     *)
AppearsEmpty(tk) ==
  /\ tk.pc = "moodle_write"
  /\ BaselineItem(tk) = <<>>
  /\ FetchedItem(tk) # <<>> /\ AllEmpty(FetchedItem(tk)[1])

(* The item is in the baseline with nothing filled in and is fetched with  *)
(* a grade, a percentage or a feedback.                                    *)
FilledAfterEmpty(tk) ==
  /\ tk.pc = "moodle_write"
  /\ BaselineItem(tk) # <<>> /\ AllEmpty(BaselineItem(tk)[1])
  /\ FetchedItem(tk) # <<>> /\ ~AllEmpty(FetchedItem(tk)[1])

KindFromFields(it) ==
  IF (it.grade # "" \/ it.percentage # "") /\ it.feedback # "" THEN "grade+feedback"
  ELSE IF it.feedback # "" THEN "feedback"
  ELSE "grade"

ErrorStored(t, src) ==
  tasks[t].pc = src \o "_set_err" /\ tasks'[t].pc # src \o "_set_err" /\ ~tasks[t].cancel

(* C3: from the moment the fetch of a source raises until the next         *)
(* successful cycle of that source reads its baseline, the stored          *)
(* last_hash and last_snapshot are the ones from before the failure, and   *)
(* the except clause sets last_error to the localized error text.          *)
C3_FailureKeepsBaseline ==
  [][/\ \A src \in Sources :
          obs'.failBase[src] # <<>> => Baseline(src_state'[src]) = obs'.failBase[src][1]
     /\ \A t \in TaskIds, src \in Sources :
          ErrorStored(t, src) =>
             /\ Baseline(src_state'[src]) = Baseline(src_state[src])
             /\ src_state'[src].last_error = localize_known_error(tasks[t].err)
             /\ src_state'[src].last_error = "Invalid login or password."]_vars

(* The rows a writer of the baseline changes.                              *)
StoredBaseline(src) ==
  [last_hash |-> src_state[src].last_hash, last_snapshot |-> src_state[src].last_snapshot,
   last_changes |-> src_state[src].last_changes]

(* The monitor task t stores the baseline of src in this step.             *)
MonitorWrites(t, src) ==
  /\ ~tasks[t].cancel
  /\ tasks[t].pc \in {src \o "_update", src \o "_write"}
  /\ tasks'[t].pc # tasks[t].pc

(* C6: last_hash, last_snapshot and the recent-events list of a source     *)
(* change only in a step in which the user's monitor task stores them; no  *)
(* other task or handler writes the baseline.                              *)
C6_OnlyMonitorWritesBaseline ==
  [][\A src \in Sources :
        StoredBaseline(src)' # StoredBaseline(src) => \E t \in TaskIds : MonitorWrites(t, src)]_vars

(* The awaits of one fetch-and-diff attempt of a source.                   *)
AttemptPcs(src) ==
  {src \o "_fetch", src \o "_clear_err", src \o "_get_state", src \o "_update",
   src \o "_merge", src \o "_write", src \o "_send", src \o "_set_err"}

(* The attempt of src ends in this step and the task goes on.              *)
AttemptEnds(t, src) ==
  /\ tasks[t].pc \in AttemptPcs(src)
  /\ tasks'[t].pc \notin AttemptPcs(src)
  /\ tasks'[t].pc \notin {"start", "done", "close"}

AttemptBegins(t, src) ==
  tasks[t].pc # src \o "_fetch" /\ tasks'[t].pc = src \o "_fetch"

ConfiguredInterval(src) ==
  IF src = "fic" THEN CHECK_INTERVAL_SEC ELSE MOODLE_CHECK_INTERVAL_SEC

(* C4: when an attempt of a source ends, failed or not, the source's       *)
(* next-due timestamp is the wake time of the attempt plus the configured  *)
(* interval, at least 5 seconds; an attempt begins only on a wake at or    *)
(* after the next-due timestamp, so not twice in one wake and not before   *)
(* one interval has passed since the previous attempt's wake.              *)
C4_NextDueAfterAttempt ==
  [][\A t \in TaskIds, src \in Sources :
       /\ AttemptEnds(t, src) =>
            /\ tasks'[t].next_ts[src] = tasks[t].wake + Max(5, ConfiguredInterval(src))
            /\ tasks'[t].next_ts[src] >= tasks[t].wake + 5
            /\ tasks'[t].next_ts[src] > tasks[t].wake
       /\ AttemptBegins(t, src) =>
            /\ tasks'[t].wake >= tasks[t].next_ts[src]
            /\ tasks'[t].wake <= now
       /\ (tasks[t].pc \in AttemptPcs(src) /\ tasks'[t].pc \in AttemptPcs(src)) =>
            /\ tasks'[t].next_ts = tasks[t].next_ts
            /\ tasks'[t].wake = tasks[t].wake]_vars

(* A second attempt of Moodle failed and was rescheduled.                  *)
C4_Witness ==
  \E t \in TaskIds :
    /\ tasks[t].pc = "sleep"
    /\ tasks[t].next_ts["moodle"] >= 2 * MinIntervalSec
    /\ src_state["moodle"].last_error # ""

LiveTasks == {t \in TaskIds : Live(t)}
RegisteredLive == fic_monitor_tasks # 0 /\ Live(fic_monitor_tasks)

(* C5: at every moment at most one monitor task of the user is not         *)
(* finished, and it is the registered one; a handler that calls            *)
(* ensure_fic_task while the registered task is not done creates no task   *)
(* and leaves the registry as it is.                                       *)
C5_AtMostOneTask ==
  [][/\ Cardinality(LiveTasks) <= 1
     /\ Cardinality(LiveTasks') <= 1
     /\ \A t \in LiveTasks' : fic_monitor_tasks' = t
     /\ ((cmd_start_monitor \/ got_password) /\ RegisteredLive) =>
           /\ fic_monitor_tasks' = fic_monitor_tasks
           /\ tasks' = tasks]_vars

(* /start_monitor arrived while the task created at start was asleep:      *)
(* the same task is still the only one, and it goes on sleeping.           *)
C5_Witness ==
  /\ commands = 1
  /\ now > 0
  /\ users["fic"].until = now + LeaseSec("fic")
  /\ LiveTasks = {1}
  /\ fic_monitor_tasks = 1
  /\ tasks[1].pc = "sleep"
  /\ tasks[1].next_ts["moodle"] = MinIntervalSec

OtherSource(src) == IF src = "fic" THEN "moodle" ELSE "fic"

(* The stored lease of the source is running at the current time.          *)
LeaseRunning(src) == users[src].active /\ users[src].until > now

(* The task t switches src off because its lease has expired.              *)
ExpiryOff(t, src) ==
  tasks[t].pc = src \o "_off" /\ ~tasks[t].cancel /\ tasks'[t].pc = src \o "_off_notice"

(* The task t sends the auto-off notice of src.                            *)
ExpiryNotice(t, src) ==
  /\ tasks[t].pc = src \o "_off_notice" /\ ~tasks[t].cancel
  /\ outbox' = << [kind |-> "auto_off", src |-> src] >>

(* C7: when the task, at its start or on a wake, finds the lease of one    *)
(* active source expired while the other source is active with a running   *)
(* lease, it switches off the expired source only, sends that source's     *)
(* auto-off notice and stays alive to poll the other source.               *)
C7_ExpiryPerSource ==
  [][\A t \in TaskIds, src \in Sources :
       /\ ExpiryOff(t, src) =>
            /\ ~users'[src].active
            /\ users'[OtherSource(src)] = users[OtherSource(src)]
       /\ (ExpiryNotice(t, src) /\ LeaseRunning(OtherSource(src))) =>
            /\ users'[OtherSource(src)].active
            /\ tasks'[t].pc # "done"
            /\ tasks'[t].pc # "close"]_vars

(* C8: a restart (init_db, then resume_tasks_on_start) leaves an inactive  *)
(* source inactive and leaves the expiry timestamp of an active source as  *)
(* it was stored.                                                          *)
C8_RestartKeepsLeases ==
  [][Restart =>
       \A src \in Sources :
          /\ ~users[src].active => ~users'[src].active
          /\ users[src].active => users'[src] = users[src]]_vars

(* The task t sends the pre-expiry warning of src.                         *)
WarningSent(t, src) ==
  /\ tasks[t].pc = src \o "_warn_send" /\ ~tasks[t].cancel
  /\ outbox' = << [kind |-> "warning", src |-> src] >>

(* at most one warning in a lease                                          *)
C9_WarnOnce ==
  \A t \in TaskIds, src \in Sources : WarningSent(t, src) => obs.warns[src] = 0

(* a warning only while the remaining lease time is positive and within    *)
(* the warn window                                                         *)
C9_WarnInWindow ==
  \A t \in TaskIds, src \in Sources :
    WarningSent(t, src) =>
       /\ users[src].active
       /\ users[src].until - now > 0
       /\ users[src].until - now <= WarnWindow(src)

(* the source is switched off when its lease has expired, and the notice   *)
(* follows the switch-off: the task does not leave the notice unsent       *)
C9_NoticeWithDeactivation ==
  \A t \in TaskIds, src \in Sources :
    /\ ExpiryOff(t, src) => users[src].active /\ users[src].until <= now
    /\ ExpiryNotice(t, src) => ~users[src].active /\ obs.autoOff[src]
    /\ (tasks[t].pc = src \o "_off_notice" /\ tasks'[t].pc # src \o "_off_notice") =>
          outbox' = << [kind |-> "auto_off", src |-> src] >>

(* no fetch of a source that was switched off by expiry and not enabled    *)
(* again by the user                                                       *)
C9_NoFetchAfterAutoOff ==
  \A t \in TaskIds, src \in Sources : AttemptBegins(t, src) => ~obs.autoOff[src]

(* C9: within one lease the warning is sent at most once and only while    *)
(* the remaining time is positive and within the warn window; the auto-off *)
(* notice is sent once, with the deactivation at expiry; the source is not *)
(* fetched afterwards until the user enables it again.                     *)
C9_LeaseNotices ==
  [][C9_WarnOnce /\ C9_WarnInWindow /\ C9_NoticeWithDeactivation
       /\ C9_NoFetchAfterAutoOff]_vars

(* The task reads the user record in this step: on a wake, or again after  *)
(* an expiry in the same wake.                                             *)
ReadsUser(t) ==
  MonGetUser(t) \/ \E src \in Sources : MonReread(t, src)

(* The sleeping task is due only after the end of the modelled time.       *)
PastHorizon(t) == tasks[t].pc = "sleep" /\ tasks[t].wake_at > MaxNow

(* C10, safety: a task that reads the user record in its loop and finds    *)
(* both sources inactive goes to the end of the loop at once, and from     *)
(* there it only finishes: no fetch, no further sleep.                     *)
C10_LeavesLoop ==
  [][\A t \in TaskIds :
       /\ (ReadsUser(t) /\ BothOff(users)) => tasks'[t].pc = "close"
       /\ tasks[t].pc = "close" => tasks'[t].pc \in {"close", "done"}]_vars

(* C10, termination: while both sources stay off, a running task ends      *)
(* (unless its wake time lies beyond the modelled time).                   *)
C10_Terminates ==
  \A t \in TaskIds :
    (BothOff(users) /\ Live(t)) ~> (~Live(t) \/ ~BothOff(users) \/ PastHorizon(t))

(* C10: if both sources are inactive when the task wakes, or become        *)
(* inactive through expiry during the wake, the task leaves its loop       *)
(* without fetching; under fair scheduling a task whose sources are both   *)
(* off and stay off terminates after at most one sleep.                    *)
C10_BothOffTerminates == C10_LeavesLoop /\ C10_Terminates

(* The task woke up, found both sources switched off and left the loop.    *)
C10_Witness ==
  \E t \in TaskIds :
    /\ tasks[t].pc = "close"
    /\ BothOff(users)
    /\ now >= MinIntervalSec
    /\ obs.autoOff = [src \in Sources |-> FALSE]

(* A cancel of the task t was requested and the task has not finished:     *)
(* the flag is set until CancelledError is delivered, and /stop waits for  *)
(* the task in cancel_task_safely until it is done.                        *)
CancelPending(t) ==
  Live(t) /\ (tasks[t].cancel \/ (stop.pc = "await" /\ stop.t = t))

LastErrors == [src \in Sources |-> src_state[src].last_error]

ServiceCreated(t) == Live(t) /\ tasks[t].phase = "loop"

(* C12: a task whose fetcher service was created finishes only from the    *)
(* finally clause, after svc.close() has returned or raised, and the       *)
(* registry holds no entry of the user once it has finished (steps of the  *)
(* process ending are left aside).                                         *)
C12_CloseThenPop ==
  [][\A t \in TaskIds :
       (ServiceCreated(t) /\ ~Live(t)' /\ ~Restart) =>
          /\ tasks[t].pc = "close"
          /\ ~tasks[t].cancel
          /\ fic_monitor_tasks' = 0]_vars

(* A task is created in this step.                                         *)
TaskCreated(t) == ~Live(t) /\ Live(t)'

FlatDone == call.fn = "flat" /\ call.done

(* The grade of (t, c) in the previous snapshot; "" when there is none.    *)
PrevGrade(t, c) ==
  IF call.prev # <<>> /\ t \in DOMAIN call.prev[1] /\ c \in DOMAIN call.prev[1][t]
  THEN call.prev[1][t][c] ELSE ""

(* The (term, code) pairs of the new map that are to be reported.          *)
FlatExpected ==
  {tc \in {"T1", "T2"} \X {"X", "Y"} :
     /\ tc[1] \in DOMAIN call.new /\ tc[2] \in DOMAIN call.new[tc[1]]
     /\ call.new[tc[1]][tc[2]] # ""
     /\ call.new[tc[1]][tc[2]] # PrevGrade(tc[1], tc[2])}

(* C14: the result has one (code, new grade) pair for each (term, code) of *)
(* the new map whose grade is non-empty and differs from the previous      *)
(* grade (none counts as ""), and no other pair; no pair has an empty      *)
(* grade; the pairs are in ascending (code, grade) order.                  *)
C14_FlatDiff ==
  FlatDone =>
    /\ Len(call.out) = Cardinality(FlatExpected)
    /\ \A c \in {"X", "Y"}, g \in FicGrades :
         Cardinality({i \in DOMAIN call.out : call.out[i] = <<c, g>>})
           = Cardinality({tc \in FlatExpected : tc[2] = c /\ call.new[tc[1]][tc[2]] = g})
    /\ \A i \in DOMAIN call.out : call.out[i][2] # ""
    /\ \A i, j \in DOMAIN call.out : i < j => PairLeq(call.out[i], call.out[j])

(* Three changes are reported, two of them with the same pair, while a     *)
(* grade of the previous snapshot became empty.                            *)
C14_Witness ==
  /\ FlatDone
  /\ Len(call.out) = 3
  /\ call.out[1] = call.out[2]
  /\ call.out[3][1] = "Y"
  /\ PrevGrade("T2", "Y") = "A"
  /\ call.new["T2"]["Y"] = ""

(* ---- the hierarchical diff, stated from its arguments ---- *)
TreeDone == call.fn = "tree" /\ call.done

Range(q) == {q[i] : i \in DOMAIN q}

(* The items of the course cid in the previous snapshot.                   *)
PrevItems(cid) ==
  IF call.prev = <<>> THEN {}
  ELSE UNION {Range(c.items) : c \in {x \in Range(call.prev[1].courses) : x.course_id = cid}}

(* The condition under which the item it of the course cid is reported.    *)
Reported(cid, it) ==
  LET olds == {o \in PrevItems(cid) : o.item_id = it.item_id} IN
  IF olds = {} THEN it.grade # "" \/ it.percentage # "" \/ it.feedback # ""
  ELSE \E o \in olds :
         \/ (it.grade # o.grade \/ it.percentage # o.percentage)
              /\ (it.grade # "" \/ it.percentage # "")
         \/ it.feedback # o.feedback /\ it.feedback # ""

EventsOf(cid, iid) ==
  {i \in DOMAIN call.out : call.out[i].course = cid /\ call.out[i].new_item.item_id = iid}

(* C15: every event is about an item of a course of the new snapshot; an   *)
(* item has one event if it is to be reported (no old item: something is   *)
(* filled in; old item: grade or percentage changed to something filled    *)
(* in, or feedback changed to a non-empty one) and none otherwise; the     *)
(* events of a course are in the order of its items.                       *)
C15_TreeDiff ==
  TreeDone =>
    /\ \A i \in DOMAIN call.out :
         \E c \in Range(call.new.courses) :
            c.course_id = call.out[i].course /\ call.out[i].new_item \in Range(c.items)
    /\ \A c \in Range(call.new.courses) : \A it \in Range(c.items) :
         Cardinality(EventsOf(c.course_id, it.item_id))
            = IF Reported(c.course_id, it) THEN 1 ELSE 0
    /\ \A c \in Range(call.new.courses) : \A m, n \in DOMAIN c.items :
         m < n => \A i \in EventsOf(c.course_id, c.items[m].item_id),
                     j \in EventsOf(c.course_id, c.items[n].item_id) : i < j

(* Three events: the two items of the first course in the order row_2,     *)
(* row_1, the latter with both its grade and its feedback changed, then    *)
(* the item of the second course; the previous snapshot has both courses.  *)
C15_Witness ==
  /\ TreeDone
  /\ Len(call.out) = 3
  /\ call.out[1].new_item.item_id = ItemId2
  /\ call.out[2].new_item.item_id = ItemId
  /\ call.out[2].old_item # <<>>
  /\ call.out[2].old_item[1].grade # call.out[2].new_item.grade
  /\ call.out[2].old_item[1].feedback # call.out[2].new_item.feedback
  /\ call.out[3].course = CourseId2

(* The stored snapshot of the call is the canonical form of the new one.   *)
SelfCall == call.done /\ call.prev = normalize_snapshot(call.new)

SomeReportFailed == \E i \in DOMAIN call.fetch : call.fetch[i].error # ""

(* The change call.out[k] has its entry in the recent events and its line  *)
(* in the notification made from the change list.                          *)
StoredAndNotified(k) ==
  LET ch == call.out[k]
      recent == compress_moodle_changes_for_recent(call.out)
      text == format_moodle_item_change_notification(call.out)
  IN /\ Len(recent) = Len(call.out)
     /\ recent[k].course_id = ch.course
     /\ recent[k].item_id = ch.new_item.item_id
     /\ recent[k].new_value = moodle_item_compact_value(ch.new_item)
     /\ \E b \in DOMAIN text :
          /\ text[b].course = ch.course
          /\ \E l \in DOMAIN text[b].lines :
               text[b].lines[l].item_id = ch.new_item.item_id

(* C17: when the report fetch of some courses fails, the fetch still       *)
(* returns a snapshot with every course (the cycle does not fail); each    *)
(* failed course is in it with its error text and no items and has no      *)
(* change event; every other course has its items, and each item of it     *)
(* that is to be reported has its one event, which (when there is a stored *)
(* baseline to diff against) is among the recent events to store and in    *)
(* the notification.                                                       *)
C17_FailedCourseIsolated ==
  TreeDone /\ SomeReportFailed =>
    /\ Len(call.new.courses) = Len(call.fetch)
    /\ \A i \in DOMAIN call.fetch :
         LET r == call.fetch[i]
             c == call.new.courses[i]
         IN IF r.error # ""
            THEN /\ c.course_id = r.course_id
                 /\ c.error = r.error
                 /\ c.items = <<>>
                 /\ \A k \in DOMAIN call.out : call.out[k].course # r.course_id
            ELSE /\ c.course_id = r.course_id
                 /\ c.error = ""
                 /\ c.items = r.items
                 /\ \A it \in Range(r.items) :
                      /\ Cardinality(EventsOf(r.course_id, it.item_id))
                           = IF Reported(r.course_id, it) THEN 1 ELSE 0
                      /\ call.prev # <<>> =>
                           \A k \in EventsOf(r.course_id, it.item_id) : StoredAndNotified(k)

(* The report fetch of the second course failed, its item in the stored    *)
(* snapshot differs from what its page holds, the failed course comes      *)
(* first; the two items of the first course changed and are the events.    *)
C17_Witness ==
  /\ TreeDone
  /\ call.prev # <<>>
  /\ Len(call.fetch) = 2
  /\ call.fetch[1].error # ""
  /\ call.fetch[1].course_id = CourseId2
  /\ \E c \in Range(call.prev[1].courses) :
       c.course_id = CourseId2 /\ c.items # call.fetch[1].items
  /\ Len(call.out) = 2
  /\ \A k \in DOMAIN call.out : call.out[k].course = CourseId /\ call.out[k].old_item # <<>>

(* A task completes a Moodle cycle in this step: the baseline was stored   *)
(* and nothing is left to send, or the notification is sent.               *)
MoodleCycleEnds ==
  LET StorePcs == {"moodle_update", "moodle_write", "moodle_send"} IN
  \E t \in TaskIds : tasks[t].pc \in StorePcs /\ tasks'[t].pc \notin StorePcs

(* The item ids a notification text names, per course.                     *)
TextItems(text, cid) ==
  UNION {Range([l \in DOMAIN text[b].lines |-> text[b].lines[l].item_id]) :
           b \in {x \in DOMAIN text : text[x].course = cid}}

(* The notification names, for each course with changes, the items of the  *)
(* first NotifyCap changes of the course, in the order of the change list. *)
FirstEightOnly(box) ==
  LET changes == box.changes
      ItemsOf(cid) ==
        LET arr == SelectSeq(changes, LAMBDA ch : ch.course = cid)
        IN [k \in DOMAIN arr |-> arr[k].new_item.item_id]
  IN \A cid \in {changes[i].course : i \in DOMAIN changes} :
       \E b \in DOMAIN box.text :
          /\ box.text[b].course = cid
          /\ [l \in DOMAIN box.text[b].lines |-> box.text[b].lines[l].item_id]
               = Take(ItemsOf(cid), NotifyCap)

(* C18: a Moodle notification names only the first 8 changes of a course,  *)
(* in the order in which the items were met; and the changes left out of   *)
(* it are named in the notification of the next Moodle cycle.              *)
C18_FirstEightThenNextCycle ==
  [][/\ MoodleNotification(outbox') => FirstEightOnly(outbox'[1])
     /\ obs.withheld # {} /\ MoodleCycleEnds =>
          /\ MoodleNotification(outbox')
          /\ obs.withheld \subseteq TextItems(outbox'[1].text, CourseId)]_vars

(* The stored recent events (json.loads of last_changes).                  *)
StoredRecent ==
  IF src_state["moodle"].last_changes = <<>> THEN <<>>
  ELSE src_state["moodle"].last_changes[1]

(* C19: after any number of Moodle baseline updates that carry recent      *)
(* events the stored list has at most 50 entries and is the first 50 of    *)
(* all events handed over so far, the latest update first and each         *)
(* update's events in their order; the last update put its events in       *)
(* front of what was stored; and after 60 updates of one event each the    *)
(* list is the events of the updates 60, 59, ..., 11.                      *)
C19_RecentNewestFirst ==
  call.fn = "recent" /\ call.pushes > 0 =>
    /\ Len(StoredRecent) <= 50
    /\ StoredRecent = Take(call.out, 50)
    /\ SubSeq(StoredRecent, 1, Min(Len(call.new), 50)) = Take(call.new, 50)
    /\ call.pushes = 60 /\ call.odd = 0 =>
         StoredRecent = [i \in 1..50 |-> [ts |-> 61 - i, item_id |-> ItemId]]

(* Sixty updates of one event each were made.                              *)
C19_Witness ==
  /\ call.fn = "recent"
  /\ call.pushes = 60
  /\ call.odd = 0
  /\ Len(call.out) = 60
  /\ Len(StoredRecent) = 50
  /\ StoredRecent[1].ts = 60
  /\ StoredRecent[50].ts = 11

(* The task t ends a fetch-and-diff attempt of src in this step without    *)
(* having gone through the except clause: the cycle succeeded.             *)
CycleSucceeds(t, src) ==
  /\ AttemptEnds(t, src)
  /\ tasks[t].pc \in {src \o "_get_state", src \o "_update", src \o "_write", src \o "_send"}
  /\ ~tasks[t].cancel

(* C20: when a fetch-and-diff cycle of a source succeeds, whether the      *)
(* hashes differed or not and whether a notification was sent or not, the  *)
(* store holds the canonical form and the hash of the snapshot the cycle   *)
(* fetched, and its updated_at is the time of the cycle's store            *)
(* operations.                                                             *)
C20_CycleLeavesNewBaseline ==
  [][\A t \in TaskIds, src \in Sources :
        CycleSucceeds(t, src) =>
           /\ src_state'[src].last_snapshot = normalize_snapshot(tasks[t].fetched[1])
           /\ src_state'[src].last_hash = HashOf(tasks[t].fetched)
           /\ src_state'[src].fresh]_vars

(* A term code as the number of terms since year 0, and back.              *)
TermIndex(code) == (code \div 100) * 3 + (code % 100) - 1
TermOfIndex(k) == (k \div 3) * 100 + (k % 3) + 1

(* The six-digit number a run of the label writes, 0 when it is no such    *)
(* run.                                                                    *)
CodeOfRun(run) ==
  LET RunsOf == [c \in {0, 202303, 202401, 202402, 202403, 202501, 202502, 202503} |->
                   [i \in 1..6 |-> <<"0", "1", "2", "3", "4", "5", "6", "7", "8", "9">>
                                      [((c \div (10 ^ (6 - i))) % 10) + 1]]]
  IN IF \E c \in DOMAIN RunsOf : RunsOf[c] = run
     THEN CHOOSE c \in DOMAIN RunsOf : RunsOf[c] = run ELSE 0

(* The archive decision the rules give for the arguments a.                *)
ArchiveExpected(a) ==
  LET coded == a.course_code # <<>> /\ a.course_code # <<" ">>
      codes == [i \in DOMAIN a.term_label |-> CodeOfRun(a.term_label[i])]
      found == {i \in DOMAIN codes : codes[i] > 0}
      tc == codes[CHOOSE i \in found : \A j \in found : i <= j]
      cur == 202500 + ((a.today.month + 3) \div 4)
      window == IF a.active_terms < 1 THEN 1 ELSE IF a.active_terms > 6 THEN 6
                ELSE a.active_terms
  IN IF ~coded THEN TRUE
     ELSE IF a.base_archived THEN TRUE
     ELSE IF found = {} THEN TRUE
     ELSE TermIndex(tc) < TermIndex(cur) - (window - 1)

(* C21: the archive decision follows the rules in order: no course code    *)
(* gives archived; else a set portal flag gives archived; else a label     *)
(* without a six-digit term code gives archived; else the course is        *)
(* archived iff its term lies more than window - 1 terms before the        *)
(* current one, window being the configured count clamped to 1..6.  A      *)
(* coded, unflagged course of the current term is active for every window. *)
C21_ArchivePolicy ==
  call.fn = "archive" /\ call.done =>
    /\ call.out = ArchiveExpected(call.new)
    /\ (/\ call.new.course_code = <<"C", "1">>
        /\ ~call.new.base_archived
        /\ parse_fic_term_code(call.new.term_label) = current_fic_term_code(call.new.today))
       => call.out = FALSE

(* A coded, unflagged course of term 202403 seen in term 202502 with a     *)
(* window of three terms is active: it is the oldest active term.          *)
C21_Witness ==
  /\ call.fn = "archive" /\ call.done
  /\ call.new.course_code = <<"C", "1">>
  /\ ~call.new.base_archived
  /\ call.new.term_label = << <<"F", "I", "C">>, <<"2", "0", "2", "4", "0", "3">> >>
  /\ call.new.today.month = 6
  /\ call.new.active_terms = 3
  /\ call.out = FALSE

(* n calls of fic_term_prev with one step each.                            *)
RECURSIVE SingleSteps(_, _)
SingleSteps(code, n) ==
  IF n = 0 THEN code ELSE SingleSteps(fic_term_prev(code, 1), n - 1)

(* C22: stepping a term code year*100+term (term 1..3) back n >= 0 times   *)
(* gives a code whose term is again 1..3, namely the term n places before  *)
(* it; one step back from term 1 is term 3 of the year before; n steps of  *)
(* one equal one call with n steps; three steps back is the same term of   *)
(* the year before.                                                        *)
C22_TermStepping ==
  call.fn = "term" /\ call.done =>
    LET code == call.new.term_code
        n == call.new.steps
    IN /\ (call.out % 100) \in {1, 2, 3}
       /\ call.out = TermOfIndex(TermIndex(code) - n)
       /\ call.out = SingleSteps(code, n)
       /\ (n = 1 /\ code % 100 = 1) => call.out = (code \div 100 - 1) * 100 + 3
       /\ n = 3 => call.out = code - 100

(* Term 202501 stepped back four times: 202403, 202402, 202401, 202303.    *)
C22_Witness ==
  /\ call.fn = "term" /\ call.done
  /\ call.new.term_code = 202501
  /\ call.new.steps = 4
  /\ call.out = 202303

(* ---------------- C23: item ids of a course record ---------------- *)

(* C23: within the course record built from the list that                  *)
(* parse_moodle_course_report returns (fetch_course copies the list as it  *)
(* is), no two items have the same item_id, whatever the report table:     *)
(* rows without a row id, rows with the same id, classes and name, rows    *)
(* whose ids begin with the same row_<digits>.                             *)
C23_ItemIdsDistinct ==
  call.fn = "parse" /\ call.done =>
    LET items == fetch_course(CourseId, [items |-> call.out.items, error |-> ""]).items
    IN \A i, j \in DOMAIN items : i # j => items[i].item_id # items[j].item_id

(* ---------------- C26: the category table ---------------- *)

(* C26: when several category rows of a report table carry the same        *)
(* category id, the category table keeps the (level, name) of the first of *)
(* them; the later rows with that id do not replace it.                    *)
C26_FirstCategoryKept ==
  call.fn = "parse" /\ call.done =>
    LET rows == call.new.rows
        Entering == {i \in DOMAIN rows : category_row(rows[i]) # <<>>}
        Entry(i) == category_row(rows[i])[1]
        First(cid) == CHOOSE i \in Entering :
                        /\ Entry(i).cat_id = cid
                        /\ \A j \in Entering : Entry(j).cat_id = cid => i <= j
    IN \A i \in Entering :
         call.out.cat_info[Entry(i).cat_id]
           = [level |-> Entry(First(Entry(i).cat_id)).level,
              name |-> Entry(First(Entry(i).cat_id)).name]

(* ---------------- C24: the kind of a recent event ---------------- *)

(* What made find_new_or_changed_moodle_items emit the change: no old      *)
(* item, a change of (grade, percentage) to something non-empty, a change  *)
(* of the feedback to something non-empty, or both.                        *)
TriggerOf(ch) ==
  IF ch.old_item = <<>> THEN "new"
  ELSE LET old_it == ch.old_item[1]
           it == ch.new_item
           by_grade == /\ it.grade # old_it.grade \/ it.percentage # old_it.percentage
                       /\ it.grade # "" \/ it.percentage # ""
           by_feedback == it.feedback # old_it.feedback /\ it.feedback # ""
       IN IF by_grade /\ by_feedback THEN "grade+feedback"
          ELSE IF by_grade THEN "grade"
          ELSE IF by_feedback THEN "feedback"
          ELSE ""

(* C24: every recent event made from a change of the hierarchical diff has *)
(* a kind among new, grade, feedback and grade+feedback, and the kind is   *)
(* the one of the trigger that made the diff emit the change.              *)
C24_KindAgreesWithTrigger ==
  call.fn = "tree" /\ call.done =>
    LET events == compress_moodle_changes_for_recent(call.out)
    IN /\ Len(events) = Len(call.out)
       /\ \A k \in DOMAIN events :
            /\ events[k].kind \in {"new", "grade", "feedback", "grade+feedback"}
            /\ events[k].kind = TriggerOf(call.out[k])

(* ---------------- C25: the sleep at the end of a wake ---------------- *)

(* The next-due timestamps of the sources that are active in the user      *)
(* record the wake holds.                                                  *)
ActiveDue(tk) == {tk.next_ts[src] : src \in {s \in Sources : tk.user[s].active}}

(* The task ends a wake: it goes to sleep.                                 *)
WakeEnds(t) == tasks[t].pc # "sleep" /\ tasks'[t].pc = "sleep"

(* C25: at the end of a wake the task sleeps for the time until the nearer *)
(* next-due timestamp of the active sources, and for 1 second when that    *)
(* time is shorter, also when a source is overdue; the next-due timestamp  *)
(* of an inactive source does not count.                                   *)
C25_SleepUntilNextDue ==
  [][\A t \in TaskIds :
       WakeEnds(t) =>
         LET tk == tasks'[t]
             sleep_for == tk.wake_at - now
         IN /\ sleep_for >= 1
            /\ \A n \in ActiveDue(tk) : sleep_for <= Max(1, n - now)
            /\ \/ \E n \in ActiveDue(tk) : sleep_for = Max(1, n - now)
               \/ ActiveDue(tk) = {} /\ sleep_for >= FarFuture]_vars

(* A task sleeps past the next-due timestamp of its inactive source, and   *)
(* a task sleeps 1 second for a source that was overdue.                   *)
C25_Witness ==
  \E t \in TaskIds :
    /\ tasks[t].pc = "sleep"
    /\ \E src \in Sources :
         /\ ~tasks[t].user[src].active
         /\ tasks[t].next_ts[src] > 0
         /\ tasks[t].next_ts[src] < tasks[t].wake_at
         /\ tasks[t].next_ts[OtherSource(src)] = tasks[t].wake_at

(* ---------------- C27: a fetch of unchanged content ---------------- *)

(* The task compares the hash of the Moodle snapshot it fetched with the   *)
(* stored one, and the courses of the fetched snapshot (items, grades,     *)
(* percentages, feedback) are those of the stored snapshot.                *)
ComparesSameContent(t) ==
  /\ At(t, "moodle_get_state")
  /\ tasks'[t].pc # "moodle_get_state"
  /\ src_state["moodle"].last_hash # <<>>
  /\ SnapshotCourses(parse_snapshot(src_state["moodle"].last_snapshot))
       = SnapshotCourses(tasks[t].fetched[1])

(* C27: when the Moodle content of a fetch is that of the stored snapshot, *)
(* the hash of the fetched snapshot is the stored last_hash and the cycle  *)
(* goes on without diff, baseline write or recent-events write.            *)
C27_SameContentSameHash ==
  [][\A t \in TaskIds :
       ComparesSameContent(t) =>
         /\ HashOf(tasks[t].fetched) = src_state["moodle"].last_hash
         /\ tasks'[t].pc \notin {"moodle_merge", "moodle_write", "moodle_update"}]_vars

(* ---------------- C28: the first baseline ---------------- *)

(* The cycle found no stored hash and stores its snapshot.                 *)
StoresFirstBaseline(t, src) ==
  /\ At(t, src \o "_update")
  /\ tasks[t].st.last_hash = <<>>
  /\ tasks'[t].pc # src \o "_update"

(* A change notification is sent in this step.                             *)
ChangesSent(src) ==
  /\ outbox' # outbox
  /\ \E i \in DOMAIN outbox' : outbox'[i].kind = "changes" /\ outbox'[i].src = src

(* C28: a cycle that finds no stored hash goes on to store the fetched     *)
(* snapshot and its hash as the baseline, sends no change notification and *)
(* records no recent events, whatever the snapshot holds; a change         *)
(* notification is sent only by a cycle that found a stored hash, not      *)
(* empty, that differs from the hash of the snapshot it fetched.           *)
C28_FirstCycleSilent ==
  [][\A src \in Sources :
       /\ \A t \in TaskIds :
            /\ (At(t, src \o "_get_state") /\ tasks'[t].pc # src \o "_get_state"
                  /\ src_state[src].last_hash = <<>>)
                 => /\ tasks'[t].pc \notin {"moodle_merge", "moodle_write", src \o "_send"}
                    /\ tasks'[t].pc = src \o "_update" => tasks'[t].st.last_hash = <<>>
            /\ StoresFirstBaseline(t, src)
                 => /\ src_state'[src].last_snapshot = normalize_snapshot(tasks[t].fetched[1])
                    /\ src_state'[src].last_hash = HashOf(tasks[t].fetched)
                    /\ src_state'[src].last_changes = src_state[src].last_changes
                    /\ ~ChangesSent(src)
                    /\ tasks'[t].pc # src \o "_send"
       /\ ChangesSent(src)
            => \E t \in TaskIds :
                 /\ At(t, src \o "_send")
                 /\ tasks[t].st.last_hash # <<>>
                 /\ tasks[t].st.last_hash # HashOf(tasks[t].fetched)]_vars

(* The monitor alone has stored the first FIC baseline, a snapshot with a  *)
(* grade in it, and nothing was sent.                                      *)
C28_Witness ==
  /\ commands = 0
  /\ refresh = IdleRefresh
  /\ src_state["fic"].last_hash = HashOf(<<ficPortal>>)
  /\ src_state["fic"].last_snapshot = normalize_snapshot(ficPortal)
  /\ \E term \in DOMAIN ficPortal : \E code \in DOMAIN ficPortal[term] :
       ficPortal[term][code] # ""
  /\ outbox = <<>>
  /\ \E t \in TaskIds : tasks[t].pc = "sleep" /\ tasks[t].next_ts["fic"] > 0

(* ---------------- C29: an enabled source has a monitor task ---------------- *)

(* The registered task is in or before its loop: not finished, not past    *)
(* the loop and closing its fetcher, not cancelled.                        *)
MonitorRuns ==
  /\ fic_monitor_tasks # 0
  /\ tasks[fic_monitor_tasks].pc \notin {"done", "close"}
  /\ ~tasks[fic_monitor_tasks].cancel

(* C29: while a source of the user is active with an unexpired lease (and  *)
(* no /stop is under way), a monitor task of the user is running or was    *)
(* created and will run; this holds also after ensure_fic_task was called  *)
(* while the previous task, past its loop, was still closing its fetcher.  *)
C29_ActiveSourceHasTask ==
  (stop.pc = "idle" /\ \E src \in Sources : users[src].active /\ now < users[src].until)
     => MonitorRuns

(* ---------------- C30: expiry and a renewed lease ---------------- *)

(* The stored lease of src was started after the task t read the user      *)
(* record of its wake: the source is active and its expiry timestamp is    *)
(* later than the one in the task's record.                                *)
RenewedSinceRead(t, src) ==
  /\ users[src].active
  /\ users[src].until > tasks[t].user[src].until

(* C30: the expiry check does not switch a source off on a stale user      *)
(* record: when the user has re-enabled the source, with a new expiry      *)
(* timestamp, after the task read the user record for the wake, the task   *)
(* does not set the source inactive in that wake (the auto-off notice is   *)
(* the step that follows the deactivation).                                *)
C30_NoExpiryOnStaleRecord ==
  [][\A t \in TaskIds, src \in Sources :
       ExpiryOff(t, src) => ~RenewedSinceRead(t, src)]_vars

====
